---- MODULE Spec2Model ----
(***************************************************************************)
(* A model of synk's entry-construction core (src/logic.py): the time      *)
(* parser, the duration calculator with its rounding and min/max rules,    *)
(* save_entry's dispatch to the time-tracking backend (Moco) and the       *)
(* issue tracker (JIRA), the ticket lookups (verify_jira_ticket,           *)
(* search_recent_jira_issues), the choice lists (get_task_choices,         *)
(* get_project_choices) and the day's ledger (get_daily_entries,           *)
(* get_last_activity, get_start_time_suggestion); of the interactive       *)
(* session (src/track_time.py: main and its prompts); and of the watcher   *)
(* (src/watcher.py).                                                       *)
(*                                                                         *)
(* Strings are sequences of characters; a character is a one-element       *)
(* string, except the two non-ASCII characters "U+0663" (ARABIC-INDIC      *)
(* DIGIT THREE) and "U+00B2" (SUPERSCRIPT TWO), which are named by their   *)
(* code points.  An Optional value is None or Some(v).                     *)
(*                                                                         *)
(* A float number of hours is modelled exactly, as an integer number of    *)
(* ticks of 1/30000 hour: a minute is 500 ticks and 0.0001 hour is 3       *)
(* ticks, so every whole minute and every decimal with at most four        *)
(* fraction digits is a whole number of ticks.                             *)
(***************************************************************************)
EXTENDS Integers, Sequences, FiniteSets, TLC

VARIABLES
    pc,              \* position of the operation under study
    time_str,        \* parse_and_validate_time_input: its argument
    parsed,          \* parse_and_validate_time_input: its outcome
    config,          \* TimeTracker.config (the duration settings)
    start_time_str,  \* calculate_duration: start_time_str
    end_input,       \* calculate_duration: end_input
    project,         \* calculate_duration: project (None or a project)
    calc,            \* calculate_duration: its outcome
    entry_data,      \* save_entry: entry_data
    calls,           \* save_entry: the backend calls issued so far, in order
    activities,      \* the activities the time-tracking backend holds
    saved,           \* save_entry: its outcome
    jira_servers,    \* the issue trackers behind the configured instances
    jira_id_input,   \* verify_jira_ticket: jira_id_input
    searches,        \* the search requests issued so far, in order
    verified,        \* verify_jira_ticket: its outcome
    recent,          \* search_recent_jira_issues: its outcome
    selected_project_data,  \* get_task_choices: selected_project_data
    task_choices,    \* get_task_choices: its outcome
    assigned_projects,      \* the backend's answer to projects/assigned
    last_activity,   \* get_project_choices: last_activity
    project_choices, \* get_project_choices: its outcome
    daily_entries,   \* get_daily_entries: its outcome
    last_fetch,      \* get_last_activity: its outcome
    suggestion,      \* get_start_time_suggestion: its outcome
    now,             \* the watcher's clock: the minute of the day
    checks,          \* the watcher's rounds so far
    last_entry_time, \* the watcher's get_last_entry_end_time: its outcome
    notifications,   \* the notifications the watcher sent: their times
    question_step,   \* the session: the index of the next step of the question order
    cycle,           \* the session: the number of the entry cycle
    last_end_time,   \* ask_for_time: last_end_time, the default start offered
    crash,           \* the session: the exception that ended it, if any
    console          \* the session: the last message printed

vars == <<pc, time_str, parsed, config, start_time_str, end_input, project,
          calc, entry_data, calls, activities, saved, jira_servers,
          jira_id_input, searches, verified, recent, selected_project_data,
          task_choices, assigned_projects, last_activity, project_choices,
          daily_entries, last_fetch, suggestion, now, checks,
          last_entry_time, notifications, question_step, cycle,
          last_end_time, crash, console>>

parseVars == <<time_str, parsed>>
calcVars == <<config, start_time_str, end_input, project, calc>>
saveVars == <<entry_data, calls, activities, saved>>
jiraVars == <<jira_servers, jira_id_input, searches, verified, recent>>
taskVars == <<selected_project_data, task_choices>>
projectVars == <<assigned_projects, last_activity, project_choices>>
lookupVars == <<jiraVars, taskVars, projectVars>>
ledgerVars == <<daily_entries, last_fetch, suggestion>>
watcherVars == <<now, checks, last_entry_time, notifications>>
sessionVars == <<question_step, cycle, last_end_time, crash, console>>
dayVars == <<ledgerVars, watcherVars, sessionVars>>

-----------------------------------------------------------------------------
(* Python values *)

None == [some |-> FALSE, val |-> <<>>]
\* None where the other values are numbers.
NoNumber == [some |-> FALSE, val |-> 0]
Some(v) == [some |-> TRUE, val |-> v]

\* What a call does: it returns a value or raises an exception.
Return(v) == [kind |-> "return", val |-> v, exc |-> "", msg |-> "", bound |-> 0]
Raise(e, m) == [kind |-> "raise", val |-> <<>>, exc |-> e, msg |-> m, bound |-> 0]
NotCalled ==
    [kind |-> "not called", val |-> <<>>, exc |-> "", msg |-> "", bound |-> 0]

-----------------------------------------------------------------------------
(* Characters and strings *)

DigitChars == <<"0", "1", "2", "3", "4", "5", "6", "7", "8", "9">>
AsciiDigits == {DigitChars[i] : i \in 1..10}

\* str.isdigit() holds of these characters; int() accepts the decimal ones
\* only, and raises ValueError on a superscript digit.
DecimalDigits == AsciiDigits \cup {"U+0663"}
IsDigitChars == DecimalDigits \cup {"U+00B2"}

DigitValue(c) ==
    IF c = "U+0663" THEN 3 ELSE (CHOOSE i \in 1..10 : DigitChars[i] = c) - 1

\* str.isdigit(): every character is a digit and there is at least one.
IsDigit(s) == Len(s) > 0 /\ \A i \in 1..Len(s) : s[i] \in IsDigitChars

RECURSIVE Zfill(_, _)
\* str.zfill(width) of a string without a sign.
Zfill(s, width) == IF Len(s) >= width THEN s ELSE Zfill(<<"0">> \o s, width)

RECURSIVE DecimalValue(_)
\* The number a string of decimal digits denotes.
DecimalValue(s) ==
    IF Len(s) = 0 THEN 0
    ELSE 10 * DecimalValue(SubSeq(s, 1, Len(s) - 1)) + DigitValue(s[Len(s)])

\* int(s) for a string of isdigit characters: a value, or ValueError.
PyInt(s) ==
    IF Len(s) > 0 /\ \A i \in 1..Len(s) : s[i] \in DecimalDigits
    THEN Return(DecimalValue(s))
    ELSE Raise("ValueError", "invalid literal for int()")

\* f"{n:02d}" for 0 <= n <= 99.
Format02d(n) == <<DigitChars[(n \div 10) + 1], DigitChars[(n % 10) + 1]>>

\* f"{hour:02d}:{minute:02d}"
FormatHHMM(hour, minute) == Format02d(hour) \o <<":">> \o Format02d(minute)

\* str.replace(':', '')
StripColons(s) == SelectSeq(s, LAMBDA c : c # ":")

-----------------------------------------------------------------------------
(* parse_and_validate_time_input *)

\* The function with the hour test off by one (0 <= hour <= 24).
parse_and_validate_time_input_hour24(s) ==
    IF ~IsDigit(s) \/ ~(3 <= Len(s) /\ Len(s) <= 4) THEN None
    ELSE LET padded == Zfill(s, 4)
             hour == PyInt(SubSeq(padded, 1, 2))
             minute == PyInt(SubSeq(padded, 3, Len(padded)))
         IN  IF hour.kind = "raise" \/ minute.kind = "raise" THEN None
             ELSE IF 0 <= hour.val /\ hour.val <= 24
                     /\ 0 <= minute.val /\ minute.val <= 59
                  THEN Some(FormatHHMM(hour.val, minute.val))
                  ELSE None

parse_and_validate_time_input(s) ==
    IF ~IsDigit(s) \/ ~(3 <= Len(s) /\ Len(s) <= 4) THEN None
    ELSE LET padded == Zfill(s, 4)
             hour == PyInt(SubSeq(padded, 1, 2))
             minute == PyInt(SubSeq(padded, 3, Len(padded)))
         IN  \* except ValueError: return None
             IF hour.kind = "raise" \/ minute.kind = "raise" THEN None
             ELSE IF 0 <= hour.val /\ hour.val <= 23
                     /\ 0 <= minute.val /\ minute.val <= 59
                  THEN Some(FormatHHMM(hour.val, minute.val))
                  ELSE None

-----------------------------------------------------------------------------
(* The parser's specification: any input string, then one call. *)

\* Longest input string of the parser's specification.
MaxLen == 5

InputChars == {"0", "2", "3", "4", "5", "6", "9", "a", "U+0663", "U+00B2"}

InputStrings == UNION {[1..n -> InputChars] : n \in 0..MaxLen}

IdleParse == time_str = <<>> /\ parsed = NotCalled
IdleCalc ==
    /\ config = <<>>
    /\ start_time_str = <<>>
    /\ end_input = <<>>
    /\ project = None
    /\ calc = NotCalled
IdleSave ==
    /\ entry_data = <<>>
    /\ calls = <<>>
    /\ activities = <<>>
    /\ saved = NotCalled

IdleJira ==
    /\ jira_servers = <<>>
    /\ jira_id_input = <<>>
    /\ searches = <<>>
    /\ verified = NotCalled
    /\ recent = NotCalled
IdleTasks == selected_project_data = <<>> /\ task_choices = NotCalled
IdleProjects ==
    /\ assigned_projects = <<>>
    /\ last_activity = None
    /\ project_choices = NotCalled
IdleLookup == IdleJira /\ IdleTasks /\ IdleProjects
IdleLedger ==
    /\ daily_entries = NotCalled
    /\ last_fetch = NotCalled
    /\ suggestion = NotCalled
IdleWatcher ==
    /\ now = 0
    /\ checks = 0
    /\ last_entry_time = NotCalled
    /\ notifications = <<>>
IdleSession ==
    /\ question_step = 0
    /\ cycle = 0
    /\ last_end_time = None
    /\ crash = NotCalled
    /\ console = ""
IdleDay == IdleLedger /\ IdleWatcher /\ IdleSession

InitParse ==
    /\ IdleDay
    /\ pc = "parse"
    /\ time_str \in InputStrings
    /\ parsed = NotCalled
    /\ IdleCalc
    /\ IdleSave
    /\ IdleLookup

Parse ==
    /\ pc = "parse"
    /\ parsed' = Return(parse_and_validate_time_input(time_str))
    /\ pc' = "parsed"
    /\ UNCHANGED <<dayVars, time_str, calcVars, saveVars, lookupVars>>

NextParse == Parse

SpecParse == InitParse /\ [][NextParse]_vars

\* The claim's own reading of a valid input and of its normal form.
PaddedInput(s) == IF Len(s) = 3 THEN <<"0">> \o s ELSE s

ValidTimeInput(s) ==
    /\ Len(s) \in {3, 4}
    /\ \A i \in 1..Len(s) : s[i] \in DecimalDigits
    /\ 10 * DigitValue(PaddedInput(s)[1]) + DigitValue(PaddedInput(s)[2]) \in 0..23
    /\ 10 * DigitValue(PaddedInput(s)[3]) + DigitValue(PaddedInput(s)[4]) \in 0..59

NormalizedInput(s) ==
    LET p == PaddedInput(s)
        d(i) == DigitChars[DigitValue(p[i]) + 1]
    IN  <<d(1), d(2), ":", d(3), d(4)>>

\* C1: parse_and_validate_time_input returns the normalized "HH:MM" string
\* exactly when the input is 3 or 4 decimal digits whose (zero-padded) first
\* two digits are an hour in 0..23 and last two a minute in 0..59; for every
\* other input it returns None, and it never raises.
C1_ParseIffValid ==
    pc = "parsed" =>
        /\ parsed.kind = "return"
        /\ parsed.val.some <=> ValidTimeInput(time_str)
        /\ parsed.val.some => parsed.val.val = NormalizedInput(time_str)
        /\ ~parsed.val.some => parsed.val = None

\* A 3-digit input was padded and accepted.
C1_Witness ==
    /\ pc = "parsed"
    /\ Len(time_str) = 3
    /\ parsed.val = Some(<<"0", "9", ":", "5", "9">>)

-----------------------------------------------------------------------------
(* Floats and times of day *)

\* Three ticks are 0.0001 hour.
TicksPerHour == 3 * 10000
TicksPerMinute == TicksPerHour \div 60
MinutesPerDay == 24 * 60

\* A float: a finite number of hours in ticks, a finite number of 10^8
\* hours or more (1900-01-01 plus that many hours is past the year 9999,
\* the last a datetime holds), nan, +inf or -inf.
Finite(t) == [cls |-> "finite", ticks |-> t]
Huge == [cls |-> "huge", ticks |-> 0]
NegativeHuge == [cls |-> "-huge", ticks |-> 0]
NaN == [cls |-> "nan", ticks |-> 0]
Inf == [cls |-> "inf", ticks |-> 0]
NegativeInf == [cls |-> "-inf", ticks |-> 0]

RECURSIVE StripZeros(_)
\* s without its leading zeros.
StripZeros(s) ==
    IF Len(s) > 0 /\ DigitValue(s[1]) = 0 THEN StripZeros(Tail(s)) ELSE s

RECURSIVE Pow10(_)
Pow10(n) == IF n = 0 THEN 1 ELSE 10 * Pow10(n - 1)

\* Index of the first "." of s, or 0.
PointIndex(s) ==
    IF \E i \in 1..Len(s) : s[i] = "."
    THEN CHOOSE i \in 1..Len(s) : s[i] = "." /\ \A j \in 1..(i - 1) : s[j] # "."
    ELSE 0

AllDecimalDigits(s) == \A i \in 1..Len(s) : s[i] \in DecimalDigits

\* float(s) of an unsigned literal: digits with at most one point and at
\* least one digit.  In every input of the model the fraction has at most
\* four digits, so its value is a whole number of ticks, and the integer
\* part has at most four digits or at least nine.
UnsignedFloat(s) ==
    LET dot == PointIndex(s)
        ip == IF dot = 0 THEN s ELSE SubSeq(s, 1, dot - 1)
        fp == IF dot = 0 THEN <<>> ELSE SubSeq(s, dot + 1, Len(s))
    IN  IF ~(AllDecimalDigits(ip) /\ AllDecimalDigits(fp) /\ Len(ip) + Len(fp) > 0)
        THEN Raise("ValueError", "could not convert string to float")
        ELSE IF Len(StripZeros(ip)) >= 9 THEN Return(Huge)
        ELSE Return(Finite(DecimalValue(ip) * TicksPerHour
                           + DecimalValue(fp) * Pow10(4 - Len(fp)) * 3))

\* float(s): an optional sign, then a literal, "nan" or "inf".
PyFloat(s) ==
    LET signed == Len(s) > 0 /\ s[1] \in {"-", "+"}
        body == IF signed THEN Tail(s) ELSE s
        neg == signed /\ s[1] = "-"
    IN  IF body = <<"n", "a", "n">> THEN Return(NaN)
        ELSE IF body = <<"i", "n", "f">>
        THEN Return(IF neg THEN NegativeInf ELSE Inf)
        ELSE LET u == UnsignedFloat(body)
             IN  IF u.kind = "return" /\ neg
                 THEN Return(IF u.val.cls = "huge" THEN NegativeHuge
                             ELSE Finite(0 - u.val.ticks))
                 ELSE u

\* datetime.strptime(s, "%H:%M") of an "HH:MM" string: the minute of the
\* day (the date is 1900-01-01).
Strptime(s) ==
    60 * (10 * DigitValue(s[1]) + DigitValue(s[2]))
    + 10 * DigitValue(s[4]) + DigitValue(s[5])

\* (start_time_dt + timedelta(hours=d)).strftime("%H:%M"): the seconds and
\* the date of the sum are dropped.
StrftimeAfter(startMinute, ticks) ==
    LET minute == ((startMinute * TicksPerMinute + ticks) \div TicksPerMinute)
                  % MinutesPerDay
    IN  FormatHHMM(minute \div 60, minute % 60)

\* round(x / y) for ticks x and y > 0: Python rounds a half to the even
\* neighbour.
RoundHalfEven(x, y) ==
    LET q == x \div y
        r == x % y
    IN  IF 2 * r < y THEN q
        ELSE IF 2 * r > y THEN q + 1
        ELSE IF q % 2 = 0 THEN q ELSE q + 1

-----------------------------------------------------------------------------
(* TimeTracker.validate_duration_rules *)

RaiseBound(m, n) ==
    [kind |-> "raise", val |-> <<>>, exc |-> "ValueError", msg |-> m, bound |-> n]

\* dict.get(key) and dict.get(key, default) of a dict modelled as a function.
Get(d, k) == IF k \in DOMAIN d THEN Some(d[k]) ELSE None
GetOr(d, k, default) == IF k \in DOMAIN d THEN Some(d[k]) ELSE default

\* project.get('customer', {}).get('name', 'No Customer')
NoCustomer == <<"N", "o", " ", "C", "u", "s", "t", "o", "m", "e", "r">>
CustomerName(p) == IF p.customer.some THEN p.customer.val ELSE NoCustomer

\* f"{customer_name} / {project_name}"
ProjectKey(p) == CustomerName(p) \o <<" ", "/", " ">> \o p.name

\* The rules of the project's key, when the project and the rules mapping
\* are given and the key's rule is a non-empty dict; else None.
ProjectRules(cfg, proj) ==
    IF proj.some /\ DOMAIN cfg.project_duration_rules # {}
    THEN LET r == Get(cfg.project_duration_rules, ProjectKey(proj.val))
         IN  IF r.some /\ DOMAIN r.val # {} THEN r ELSE None
    ELSE None

\* The minimum with the project's "max" read for the project's "min".
EffectiveMin_readsMax(cfg, proj) ==
    LET r == ProjectRules(cfg, proj)
    IN  IF r.some THEN GetOr(r.val, "max", cfg.min_duration_minutes)
        ELSE cfg.min_duration_minutes

EffectiveMin(cfg, proj) ==
    LET r == ProjectRules(cfg, proj)
    IN  IF r.some THEN GetOr(r.val, "min", cfg.min_duration_minutes)
        ELSE cfg.min_duration_minutes

EffectiveMax(cfg, proj) ==
    LET r == ProjectRules(cfg, proj)
    IN  IF r.some THEN GetOr(r.val, "max", cfg.max_duration_minutes)
        ELSE cfg.max_duration_minutes

\* Returns, or raises ValueError naming the violated bound.  duration_hours
\* * 60 < min is compared in ticks.
validate_duration_rules(cfg, ticks, proj) ==
    LET min == EffectiveMin(cfg, proj)
        max == EffectiveMax(cfg, proj)
    IN  IF min.some /\ ticks < min.val * TicksPerMinute
        THEN RaiseBound("Duration must be at least {min} minutes.", min.val)
        ELSE IF max.some /\ ticks > max.val * TicksPerMinute
        THEN RaiseBound("Duration must not exceed {max} minutes ({max/60:.1f} hours).",
                        max.val)
        ELSE Return(<<>>)

-----------------------------------------------------------------------------
(* TimeTracker.calculate_duration *)

EndNotAfterStart == "End time must be after start time."
InvalidFormat == "Invalid format. Use (h)hmm or a decimal number (e.g., 1.5)."

\* The duration the end token denotes: the first half of the function, up
\* to the rounding.  parsed_end_time is truthy when it is a string.
RawDuration(start, end) ==
    LET start_time_dt == Strptime(start)
        parsed_end_time == parse_and_validate_time_input(end)
    IN  IF parsed_end_time.some
        THEN LET end_time_dt == Strptime(parsed_end_time.val)
             IN  IF end_time_dt <= start_time_dt
                 THEN Raise("ValueError", EndNotAfterStart)
                 ELSE Return(Finite((end_time_dt - start_time_dt) * TicksPerMinute))
        ELSE LET f == PyFloat(end)
             IN  \* "Duration must be positive." is raised inside the try
                 \* and replaced by the handler's message
                 IF f.kind = "raise" THEN Raise("ValueError", InvalidFormat)
                 ELSE IF f.val.cls \in {"-inf", "-huge"}
                         \/ (f.val.cls = "finite" /\ f.val.ticks <= 0)
                 THEN Raise("ValueError", InvalidFormat)
                 ELSE f

\* The rounding with the result 0 left at 0.
RoundDuration_keepsZero(cfg, ticks) ==
    LET inc == cfg.duration_rounding_increment
    IN  IF inc.some /\ inc.val # 0 /\ inc.val > 0
        THEN RoundHalfEven(ticks, inc.val) * inc.val
        ELSE ticks

\* The rounding logic: with an increment > 0, the nearest multiple, and one
\* increment when that is 0 and the duration was positive.
RoundDuration(cfg, ticks) ==
    LET inc == cfg.duration_rounding_increment
    IN  IF inc.some /\ inc.val # 0 /\ inc.val > 0
        THEN LET rounded == RoundHalfEven(ticks, inc.val) * inc.val
             IN  IF rounded = 0 /\ ticks > 0 THEN inc.val ELSE rounded
        ELSE ticks

\* The function with the rules checked on the duration before rounding.
calculate_duration_validatesRaw(cfg, start, end, proj) ==
    LET raw == RawDuration(start, end)
    IN  IF raw.kind = "raise" THEN raw
        ELSE IF raw.val.cls = "nan"
        THEN Raise("ValueError", "cannot convert float NaN to integer")
        ELSE IF raw.val.cls = "inf"
        THEN Raise("OverflowError", "cannot convert float infinity to integer")
        ELSE IF raw.val.cls = "huge"
        THEN Raise("OverflowError", "date value out of range")
        ELSE LET duration_hours == RoundDuration(cfg, raw.val.ticks)
                 valid == validate_duration_rules(cfg, raw.val.ticks, proj)
             IN  IF valid.kind = "raise" THEN valid
                 ELSE Return([end_time_str |->
                                  StrftimeAfter(Strptime(start), duration_hours),
                              duration_hours |-> duration_hours])

\* The function with a time token that is not after the start read as a
\* decimal number of hours instead of being refused.
calculate_duration_fallsBack(cfg, start, end, proj) ==
    LET first == RawDuration(start, end)
        f == PyFloat(end)
        raw == IF first.kind = "raise" /\ first.msg = EndNotAfterStart
                  /\ f.kind = "return" /\ f.val.ticks > 0
               THEN f ELSE first
    IN  IF raw.kind = "raise" THEN raw
        ELSE IF raw.val.cls = "nan"
        THEN Raise("ValueError", "cannot convert float NaN to integer")
        ELSE IF raw.val.cls = "inf"
        THEN Raise("OverflowError", "cannot convert float infinity to integer")
        ELSE IF raw.val.cls = "huge"
        THEN Raise("OverflowError", "date value out of range")
        ELSE LET duration_hours == RoundDuration(cfg, raw.val.ticks)
                 valid == validate_duration_rules(cfg, duration_hours, proj)
             IN  IF valid.kind = "raise" THEN valid
                 ELSE Return([end_time_str |->
                                  StrftimeAfter(Strptime(start), duration_hours),
                              duration_hours |-> duration_hours])

\* The function with a zero or negative decimal duration let through.
calculate_duration_acceptsZero(cfg, start, end, proj) ==
    LET first == RawDuration(start, end)
        f == PyFloat(end)
        raw == IF first.kind = "raise" /\ first.msg = InvalidFormat
                  /\ f.kind = "return" /\ f.val.cls = "finite"
               THEN f ELSE first
    IN  IF raw.kind = "raise" THEN raw
        ELSE IF raw.val.cls = "nan"
        THEN Raise("ValueError", "cannot convert float NaN to integer")
        ELSE IF raw.val.cls = "inf"
        THEN Raise("OverflowError", "cannot convert float infinity to integer")
        ELSE IF raw.val.cls = "huge"
        THEN Raise("OverflowError", "date value out of range")
        ELSE LET duration_hours == RoundDuration(cfg, raw.val.ticks)
                 valid == validate_duration_rules(cfg, duration_hours, proj)
             IN  IF valid.kind = "raise" THEN valid
                 ELSE Return([end_time_str |->
                                  StrftimeAfter(Strptime(start), duration_hours),
                              duration_hours |-> duration_hours])

\* Returns (end_time_str, duration_hours) or raises.  A nan duration makes
\* round() or timedelta() raise ValueError, an infinite one OverflowError,
\* and a huge one makes the sum leave the datetime range (OverflowError),
\* all before the rules are checked.
calculate_duration(cfg, start, end, proj) ==
    LET raw == RawDuration(start, end)
    IN  IF raw.kind = "raise" THEN raw
        ELSE IF raw.val.cls = "nan"
        THEN Raise("ValueError", "cannot convert float NaN to integer")
        ELSE IF raw.val.cls = "inf"
        THEN Raise("OverflowError", "cannot convert float infinity to integer")
        ELSE IF raw.val.cls = "huge"
        THEN Raise("OverflowError", "date value out of range")
        ELSE LET duration_hours == RoundDuration(cfg, raw.val.ticks)
                 valid == validate_duration_rules(cfg, duration_hours, proj)
             IN  IF valid.kind = "raise" THEN valid
                 ELSE Return([end_time_str |->
                                  StrftimeAfter(Strptime(start), duration_hours),
                              duration_hours |-> duration_hours])

-----------------------------------------------------------------------------
(* The calculator's specification: any settings, start time, end token and
   project, then one call. *)

StartHours == {0, 9, 23}
StartMinutes == {0, 59}
StartTimes == {FormatHHMM(h, m) : h \in StartHours, m \in StartMinutes}

TimeTokens ==
    { <<"0", "0", "0", "0">>, <<"9", "0", "0">>, <<"0", "9", "2", "0">>,
      <<"0", "9", "5", "9">>, <<"1", "0", "3", "0">>, <<"2", "3", "5", "9">>,
      <<"0", "1", "3", "0">>, <<"2", "4", "0", "0">>, <<"1", "2", "6", "0">> }

DecimalTokens ==
    { <<"0", ".", "7", "5">>, <<"1", ".", "5">>, <<"0", ".", "0", "5">>,
      <<"0", ".", "1", "2", "5">>, <<"0", ".", "2">>, <<"1", ".", "1">>,
      <<"0", ".", "3", "3", "3", "3">>, <<"0", ".", "0", "1">>,
      <<"0", ".", "6">>, <<"2">>, <<"2", "4">>, <<"+", "1">>, <<".", "5">>,
      <<"0">>, <<"0", ".", "0">>, <<"-", "1">>, <<"-", "0", ".", "5">>,
      <<"9", "9", "9", "9", "9", "9", "9", "9", "9">> }

OtherTokens ==
    { <<>>, <<"a", "b", "c">>, <<"1", ".", "2", ".", "3">>, <<".">>,
      <<"1", "0", ":", "3", "0">>, <<"n", "a", "n">>, <<"i", "n", "f">>,
      <<"-", "i", "n", "f">>, <<"U+00B2", "0", "0">> }

EndTokens == TimeTokens \cup DecimalTokens \cup OtherTokens

\* Rounding increments in ticks: none, 0, 0.25 hours and 0.5 hours.
Increments == {NoNumber, Some(0), Some(TicksPerHour \div 4), Some(TicksPerHour \div 2)}
MinMinutes == {NoNumber, Some(15), Some(30)}
MaxMinutes == {NoNumber, Some(60), Some(120)}

CustomerC == <<"C">>
ProjectP == [name |-> <<"P">>, customer |-> Some(CustomerC)]
ProjectQ == [name |-> <<"Q">>, customer |-> Some(CustomerC)]
ProjectNoCustomer == [name |-> <<"P">>, customer |-> None]
Projects == {None, Some(ProjectP), Some(ProjectQ), Some(ProjectNoCustomer)}

\* A dict: the empty one, or one key.
EmptyDict == [k \in {} |-> 0]
Dict1(k, v) == [x \in {k} |-> v]
Dict2(k1, v1, k2, v2) == [x \in {k1, k2} |-> IF x = k1 THEN v1 ELSE v2]

KeyCP == ProjectKey(ProjectP)
ProjectDurationRules ==
    { EmptyDict,
      Dict1(KeyCP, EmptyDict),
      Dict1(KeyCP, Dict1("min", 30)),
      Dict1(KeyCP, Dict1("max", 45)),
      Dict1(KeyCP, Dict2("min", 20, "max", 90)),
      Dict1(ProjectKey(ProjectNoCustomer), Dict1("min", 60)) }

Configs ==
    [ duration_rounding_increment : Increments,
      min_duration_minutes : MinMinutes,
      max_duration_minutes : MaxMinutes,
      project_duration_rules : ProjectDurationRules ]

InitCalc ==
    /\ IdleDay
    /\ pc = "calculate"
    /\ config \in Configs
    /\ start_time_str \in StartTimes
    /\ end_input \in EndTokens
    /\ project \in Projects
    /\ calc = NotCalled
    /\ IdleParse
    /\ IdleSave
    /\ IdleLookup

CalculateDuration ==
    /\ pc = "calculate"
    /\ calc' = calculate_duration(config, start_time_str, end_input, project)
    /\ pc' = "calculated"
    /\ UNCHANGED <<dayVars, config, start_time_str, end_input, project, parseVars, saveVars,
                 lookupVars>>

NextCalc == CalculateDuration

SpecCalc == InitCalc /\ [][NextCalc]_vars

-----------------------------------------------------------------------------
(* Claims about calculate_duration, checked under SpecCalc *)

Calculated == pc = "calculated"
Succeeded == Calculated /\ calc.kind = "return"

\* The start and, for a time token, the end as minutes of the day.
StartMinute == Strptime(start_time_str)
EndTokenMinute == Strptime(NormalizedInput(end_input))

\* C2: for every successful calculate_duration call, end_time - start_time
\* equals duration_hours, for time tokens and decimal durations alike and
\* for every valid start time.
C2_EndMinusStartIsDuration ==
    Succeeded =>
        (Strptime(calc.val.end_time_str) - StartMinute) * TicksPerMinute
            = calc.val.duration_hours

\* C3: an end token that parses as a time is refused with "End time must be
\* after start time." when it is not after the start, is never read as a
\* decimal number of hours, and on success the duration is (end - start),
\* rounded when an increment is configured.
C3_TimeTokenPath ==
    (Calculated /\ ValidTimeInput(end_input)) =>
        /\ EndTokenMinute <= StartMinute =>
               /\ calc.kind = "raise"
               /\ calc.exc = "ValueError"
               /\ calc.msg = EndNotAfterStart
        /\ calc.kind = "raise" /\ calc.msg = EndNotAfterStart =>
               EndTokenMinute <= StartMinute
        /\ calc.msg # InvalidFormat
        /\ calc.kind = "return" =>
               /\ EndTokenMinute > StartMinute
               /\ calc.val.duration_hours =
                      RoundDuration(config,
                                    (EndTokenMinute - StartMinute) * TicksPerMinute)

\* A time token after the start: 09:00 to 1030 is 1.5 hours.
C3_Witness ==
    /\ Succeeded
    /\ start_time_str = <<"0", "9", ":", "0", "0">>
    /\ end_input = <<"1", "0", "3", "0">>
    /\ calc.val.duration_hours = 3 * (TicksPerHour \div 2)
    /\ calc.val.end_time_str = <<"1", "0", ":", "3", "0">>

NotPositive(f) ==
    f.cls \in {"-inf", "-huge"} \/ (f.cls = "finite" /\ f.ticks <= 0)

RawTicks == RawDuration(start_time_str, end_input).val.ticks
Abs(n) == IF n < 0 THEN 0 - n ELSE n

\* C5: with a rounding increment > 0 the returned duration is a positive
\* multiple of the increment, the multiple nearest to the raw duration,
\* except that a positive raw duration whose nearest multiple is 0 gives
\* exactly one increment; with no increment, or increment 0, the raw
\* duration is returned unchanged.
C5_Rounding ==
    Succeeded =>
        LET inc == config.duration_rounding_increment
            d == calc.val.duration_hours
        IN  IF inc.some /\ inc.val > 0
            THEN /\ d > 0
                 /\ d % inc.val = 0
                 /\ \/ 2 * Abs(d - RawTicks) <= inc.val
                    \/ 2 * RawTicks < inc.val /\ d = inc.val
                 /\ 2 * RawTicks <= inc.val => d = inc.val
            ELSE d = RawTicks

\* Increment 0.25 and a raw duration of 0.05 hours give 0.25.
C5_Witness ==
    /\ Succeeded
    /\ config.duration_rounding_increment = Some(TicksPerHour \div 4)
    /\ end_input = <<"0", ".", "0", "5">>
    /\ calc.val.duration_hours = TicksPerHour \div 4

\* The call got past parsing and rounding: only the rules can refuse it.
ReachedRules ==
    /\ Calculated
    /\ RawDuration(start_time_str, end_input).kind = "return"
    /\ RawDuration(start_time_str, end_input).val.cls = "finite"

FinalTicks == RoundDuration(config, RawTicks)

Within(ticks, min, max) ==
    /\ min.some => ticks >= min.val * TicksPerMinute
    /\ max.some => ticks <= max.val * TicksPerMinute

\* C6: the min/max bounds are checked against the final duration after
\* rounding, not the raw one; a violation makes the whole call fail, so a
\* duration below the effective minimum or above the effective maximum is
\* never returned, and a final duration within the bounds is.
C6_RulesOnFinalDuration ==
    /\ Succeeded =>
           Within(calc.val.duration_hours, EffectiveMin(config, project),
                  EffectiveMax(config, project))
    /\ ReachedRules =>
           IF Within(FinalTicks, EffectiveMin(config, project),
                     EffectiveMax(config, project))
           THEN calc.kind = "return" /\ calc.val.duration_hours = FinalTicks
           ELSE calc.kind = "raise" /\ calc.exc = "ValueError"
                /\ calc.msg \notin {InvalidFormat, EndNotAfterStart}

\* 0.2 hours is 12 minutes, below the minimum of 15, and rounds to 15
\* minutes, which is accepted.
C6_Witness ==
    /\ Succeeded
    /\ end_input = <<"0", ".", "2">>
    /\ config.duration_rounding_increment = Some(TicksPerHour \div 4)
    /\ EffectiveMin(config, project) = Some(15)
    /\ calc.val.duration_hours = 15 * TicksPerMinute

\* The claim's own resolution of the bounds: the rule of the project's key,
\* side by side, else the global bound.
ClaimRule ==
    IF project.some /\ ProjectKey(project.val) \in DOMAIN config.project_duration_rules
    THEN config.project_duration_rules[ProjectKey(project.val)]
    ELSE EmptyDict
ClaimMin ==
    IF "min" \in DOMAIN ClaimRule THEN Some(ClaimRule["min"])
    ELSE config.min_duration_minutes
ClaimMax ==
    IF "max" \in DOMAIN ClaimRule THEN Some(ClaimRule["max"])
    ELSE config.max_duration_minutes

\* C7: the effective bounds are resolved per side: the project rule keyed
\* "{customer_name} / {project_name}" gives the minimum if it defines min,
\* else the global minimum does, and likewise the maximum; a project with no
\* matching rule, or no project, is checked against the global bounds only.
\* The call fails naming the violated bound, and succeeds within the bounds.
C7_BoundsPerSide ==
    ReachedRules =>
        /\ calc.kind = "return" <=> Within(FinalTicks, ClaimMin, ClaimMax)
        /\ (ClaimMin.some /\ FinalTicks < ClaimMin.val * TicksPerMinute) =>
               /\ calc.msg = "Duration must be at least {min} minutes."
               /\ calc.bound = ClaimMin.val
        /\ (Within(FinalTicks, ClaimMin, NoNumber) /\ ~Within(FinalTicks, NoNumber, ClaimMax)) =>
               /\ calc.msg = "Duration must not exceed {max} minutes ({max/60:.1f} hours)."
               /\ calc.bound = ClaimMax.val

\* Project rule min 30, global min 15 and a duration of about 20 minutes:
\* refused for the project with "at least 30 minutes".
C7_Witness ==
    /\ Calculated
    /\ project = Some(ProjectP)
    /\ config.project_duration_rules = Dict1(KeyCP, Dict1("min", 30))
    /\ config.min_duration_minutes = Some(15)
    /\ config.duration_rounding_increment = NoNumber
    /\ end_input = <<"0", ".", "3", "3", "3", "3">>
    /\ calc.kind = "raise"
    /\ calc.bound = 30

-----------------------------------------------------------------------------
(* TimeTracker.save_entry *)

\* A dict is a function of its keys.  entry_data.get(key, default) of a
\* key holding a string, and entry_data.get(key) of a key holding an
\* Optional value.
GetStr(e, k, default) == IF k \in DOMAIN e THEN e[k] ELSE default
GetOptional(e, k) == IF k \in DOMAIN e THEN e[k] ELSE None

\* Truth of an Optional string: None and "" are false.
Truthy(part) == part.some /\ part.val # <<>>

RECURSIVE Join(_)
\* " ".join(parts)
Join(parts) ==
    IF Len(parts) = 0 THEN <<>>
    ELSE IF Len(parts) = 1 THEN parts[1]
    ELSE parts[1] \o <<" ">> \o Join(Tail(parts))

RECURSIVE Strip(_)
\* str.strip() of a string whose only whitespace is the space.
Strip(str) ==
    IF Len(str) > 0 /\ str[1] = " " THEN Strip(Tail(str))
    ELSE IF Len(str) > 0 /\ str[Len(str)] = " "
    THEN Strip(SubSeq(str, 1, Len(str) - 1))
    ELSE str

NotAvailable == <<"N", "/", "A">>

\* time_part = f"({start_time_hhmm}-{end_time_hhmm})"
TimePart(e) ==
    <<"(">> \o StripColons(GetStr(e, "start_time", NotAvailable)) \o <<"-">>
    \o StripColons(GetStr(e, "end_time", NotAvailable)) \o <<")">>

\* The parts of the description, before the empty ones are dropped.
DescParts(e) ==
    << GetOptional(e, "jira_id"),
       IF "comment" \in DOMAIN e THEN Some(e["comment"]) ELSE None,
       Some(TimePart(e)) >>

\* The description with the comment put before the ticket id.
Description_commentFirst(e) ==
    LET parts == <<DescParts(e)[2], DescParts(e)[1], DescParts(e)[3]>>
        kept == SelectSeq(parts, Truthy)
    IN  Join([i \in 1..Len(kept) |-> kept[i].val])

\* description = " ".join(part for part in [jira_id, comment, time_part] if part)
Description(e) ==
    LET kept == SelectSeq(DescParts(e), Truthy)
    IN  Join([i \in 1..Len(kept) |-> kept[i].val])

\* round(duration_hours, 4): the nearest multiple of three ticks (a number
\* of ticks is never half way between two).
RoundHours4(ticks) ==
    IF ticks % 3 = 0 THEN ticks
    ELSE IF ticks % 3 = 1 THEN ticks - 1 ELSE ticks + 1

WorkDate == "work_date.isoformat()"

\* The keys moco_payload subscripts, in the order it does.
PayloadKeys == <<"selected_project", "selected_task", "duration_hours">>
MissingPayloadKeys(e) == SelectSeq(PayloadKeys, LAMBDA k : k \notin DOMAIN e)

MocoPayload(e) ==
    [ date |-> WorkDate,
      project_id |-> e["selected_project"].id,
      task_id |-> e["selected_task"].id,
      hours |-> RoundHours4(e["duration_hours"]),
      description |-> Description(e) ]

\* jira_comment = f"{entry_data.get('comment', '')} {time_part}".strip()
JiraComment(e) == Strip(GetStr(e, "comment", <<>>) \o <<" ">> \o TimePart(e))

\* The worklog written.  timeSpentSeconds and started are left out: they
\* are computed from the duration and the start and decide nothing here.
WorklogPayload(e) ==
    [ issue |-> e["jira_issue"].val, comment |-> JiraComment(e) ]

Call(api, payload, ok) == [api |-> api, payload |-> payload, ok |-> ok]

\* What moco_post raises when the create request fails.
MocoPostError == Raise("SynkError", "Moco API Error creating entry: {error_text}")

\* What save_entry raises when add_worklog fails with a JIRAError.
WorklogError == Raise("SynkError", "Failed to add JIRA worklog: {e.text}")

\* The create with the worklog attempted even when the create failed.
MocoCreate_continuesAfterFailure ==
    /\ pc = "save"
    /\ IF MissingPayloadKeys(entry_data) # <<>>
       THEN /\ saved' = Raise("KeyError", MissingPayloadKeys(entry_data)[1])
            /\ pc' = "done"
            /\ UNCHANGED <<calls, activities>>
       ELSE \E ok \in BOOLEAN :
                /\ calls' = Append(calls, Call("moco_post", MocoPayload(entry_data), ok))
                /\ activities' = IF ok THEN Append(activities, MocoPayload(entry_data))
                                 ELSE activities
                /\ pc' = "worklog"
                /\ saved' = saved
    /\ UNCHANGED <<dayVars, entry_data, parseVars, calcVars, lookupVars>>

\* Lines 282-296: the description and the payload are built (a missing key
\* raises KeyError before anything is sent), then moco_post sends the
\* create; a request failure is raised as SynkError and ends save_entry.
MocoCreate ==
    /\ pc = "save"
    /\ IF MissingPayloadKeys(entry_data) # <<>>
       THEN /\ saved' = Raise("KeyError", MissingPayloadKeys(entry_data)[1])
            /\ pc' = "done"
            /\ UNCHANGED <<calls, activities>>
       ELSE \E ok \in BOOLEAN :
                /\ calls' = Append(calls, Call("moco_post", MocoPayload(entry_data), ok))
                /\ IF ok
                   THEN /\ activities' = Append(activities, MocoPayload(entry_data))
                        /\ pc' = "worklog"
                        /\ saved' = saved
                   ELSE /\ activities' = activities
                        /\ pc' = "done"
                        /\ saved' = MocoPostError
    /\ UNCHANGED <<dayVars, entry_data, parseVars, calcVars, lookupVars>>

\* The worklog step with a failed worklog answered by deleting the entry.
JiraWorklog_rollsBack ==
    /\ pc = "worklog"
    /\ pc' = "done"
    /\ IF ~GetOptional(entry_data, "jira_issue").some
       THEN saved' = Return(None) /\ UNCHANGED <<calls, activities>>
       ELSE IF "jira_client" \notin DOMAIN entry_data
       THEN saved' = Raise("KeyError", "jira_client") /\ UNCHANGED <<calls, activities>>
       ELSE \E ok \in BOOLEAN :
                IF ok
                THEN /\ calls' = Append(calls, Call("add_worklog",
                                                    WorklogPayload(entry_data), ok))
                     /\ saved' = Return(None)
                     /\ activities' = activities
                ELSE /\ calls' = calls \o
                         << Call("add_worklog", WorklogPayload(entry_data), ok),
                            Call("moco_delete", MocoPayload(entry_data), TRUE) >>
                     /\ saved' = Raise("SynkError", "Failed to add JIRA worklog: {e.text}")
                     /\ activities' = SubSeq(activities, 1, Len(activities) - 1)
    /\ UNCHANGED <<dayVars, entry_data, parseVars, calcVars, lookupVars>>

\* Lines 298-312: with a linked issue, the worklog is written; a JIRAError
\* is raised again as SynkError.  A missing start_time or jira_client raises
\* KeyError, which the handler does not catch.
JiraWorklog ==
    /\ pc = "worklog"
    /\ pc' = "done"
    /\ IF ~GetOptional(entry_data, "jira_issue").some
       THEN saved' = Return(None) /\ UNCHANGED calls
       ELSE IF "start_time" \notin DOMAIN entry_data
       THEN saved' = Raise("KeyError", "start_time") /\ UNCHANGED calls
       ELSE IF "jira_client" \notin DOMAIN entry_data
       THEN saved' = Raise("KeyError", "jira_client") /\ UNCHANGED calls
       ELSE \E ok \in BOOLEAN :
                /\ calls' = Append(calls, Call("add_worklog",
                                               WorklogPayload(entry_data), ok))
                /\ saved' = IF ok THEN Return(None) ELSE WorklogError
    /\ UNCHANGED <<dayVars, activities, entry_data, parseVars, calcVars, lookupVars>>

-----------------------------------------------------------------------------
(* save_entry's specification: any entry draft, then the call, step by
   step. *)

\* The time span of a draft: what calculate_duration returned for a start
\* and an end token, with no rounding and no rules.
PlainConfig ==
    [ duration_rounding_increment |-> NoNumber,
      min_duration_minutes |-> NoNumber,
      max_duration_minutes |-> NoNumber,
      project_duration_rules |-> EmptyDict ]

EntryTokens ==
    { <<"1", "0", "3", "0">>, <<"0", ".", "7", "5">>, <<"2">>,
      <<"0", ".", "3", "3", "3", "3">> }

TimeSpanOf(start, token) ==
    LET r == calculate_duration(PlainConfig, start, token, None)
    IN  [ start_time |-> start,
          end_time |-> r.val.end_time_str,
          duration_hours |-> r.val.duration_hours ]

TimeSpans ==
    { TimeSpanOf(p[1], p[2]) :
        p \in { q \in {FormatHHMM(9, 0), FormatHHMM(23, 0)} \X EntryTokens :
                  calculate_duration(PlainConfig, q[1], q[2], None).kind = "return" } }

TicketId == <<"A", "-", "1">>
Comments == { <<>>, <<"f", "i", "x">>, <<"a", " ", "b">> }

ProjectAnswers == { EmptyDict, [selected_project |-> [id |-> 11]] }
TaskAnswers == { EmptyDict, [selected_task |-> [id |-> 22]] }
JiraAnswers ==
    { EmptyDict,
      [jira_issue |-> None, jira_id |-> None, jira_client |-> None],
      [jira_issue |-> Some("issue"), jira_id |-> Some(TicketId),
       jira_client |-> Some("client")] }
CommentAnswers == { EmptyDict } \cup { [comment |-> c] : c \in Comments }
TimeAnswers == { EmptyDict } \cup TimeSpans

\* The drafts the question steps build: each step adds its keys or is left
\* out.
EntryDrafts ==
    { p @@ t @@ j @@ c @@ w :
        p \in ProjectAnswers, t \in TaskAnswers, j \in JiraAnswers,
        c \in CommentAnswers, w \in TimeAnswers }

InitSave ==
    /\ IdleDay
    /\ pc = "save"
    /\ entry_data \in EntryDrafts
    /\ calls = <<>>
    /\ activities = <<>>
    /\ saved = NotCalled
    /\ IdleParse
    /\ IdleCalc
    /\ IdleLookup

NextSave == MocoCreate \/ JiraWorklog

SpecSave == InitSave /\ [][NextSave]_vars

-----------------------------------------------------------------------------
(* Claims about save_entry, checked under SpecSave *)

CallIndices(api) == {i \in 1..Len(calls) : calls[i].api = api}

\* The claim's own reading of the description: ticket id, comment and time
\* tag in that order, the empty ones left out, joined by single spaces.
ClaimTimeTag ==
    <<"(">> \o StripColons(entry_data["start_time"]) \o <<"-">>
    \o StripColons(entry_data["end_time"]) \o <<")">>
ClaimTicket ==
    IF "jira_id" \in DOMAIN entry_data /\ entry_data["jira_id"].some
    THEN entry_data["jira_id"].val ELSE <<>>
ClaimComment ==
    IF "comment" \in DOMAIN entry_data THEN entry_data["comment"] ELSE <<>>
ClaimDescription ==
    (IF ClaimTicket # <<>> THEN ClaimTicket \o <<" ">> ELSE <<>>)
    \o (IF ClaimComment # <<>> THEN ClaimComment \o <<" ">> ELSE <<>>)
    \o ClaimTimeTag

\* The string ends with "(", four ASCII digits, "-", four ASCII digits, ")".
EndsWithTimeTag(str) ==
    /\ Len(str) >= 11
    /\ LET tag == SubSeq(str, Len(str) - 10, Len(str))
       IN  /\ tag[1] = "(" /\ tag[6] = "-" /\ tag[11] = ")"
           /\ \A i \in {2, 3, 4, 5, 7, 8, 9, 10} : tag[i] \in AsciiDigits

\* C8: the description save_entry sends is the space-joined sequence of the
\* non-empty parts among [ticket_id, comment, time_tag] in that order, with
\* time_tag = "(" + start without colon + "-" + end without colon + ")"; so
\* every saved description ends with a (HHMM-HHMM) time tag, with or
\* without a ticket or a comment.
C8_Description ==
    \A i \in CallIndices("moco_post") :
        /\ "start_time" \in DOMAIN entry_data
        /\ "end_time" \in DOMAIN entry_data
        /\ calls[i].payload.description = ClaimDescription
        /\ EndsWithTimeTag(calls[i].payload.description)

\* A create was sent for a draft with a ticket and a comment.
C8_Witness ==
    /\ CallIndices("moco_post") # {}
    /\ calls[1].payload.description =
           TicketId \o <<" ", "f", "i", "x", " ">>
           \o <<"(", "0", "9", "0", "0", "-", "1", "0", "3", "0", ")">>

Linked ==
    "jira_issue" \in DOMAIN entry_data /\ entry_data["jira_issue"].some

\* C9: the create call always comes before any worklog call; a worklog is
\* attempted only for an entry with a linked ticket and only after the
\* create returned successfully.  If the create fails no worklog is
\* written, and with no ticket no issue-tracker call is made at all.
C9_CreateBeforeWorklog ==
    /\ \A i \in CallIndices("add_worklog") :
           /\ Linked
           /\ \E j \in CallIndices("moco_post") : j < i /\ calls[j].ok
    /\ (\E j \in CallIndices("moco_post") : ~calls[j].ok) =>
           CallIndices("add_worklog") = {}
    /\ ~Linked => CallIndices("add_worklog") = {}
    /\ (pc = "done" /\ Linked /\ saved.exc # "KeyError"
        /\ \A j \in CallIndices("moco_post") : calls[j].ok) =>
           CallIndices("add_worklog") # {}

\* The worklog was written after the create.
C9_Witness ==
    /\ pc = "done"
    /\ Len(calls) = 2
    /\ calls[1].api = "moco_post" /\ calls[1].ok
    /\ calls[2].api = "add_worklog" /\ calls[2].ok

WorklogFailed == \E i \in CallIndices("add_worklog") : ~calls[i].ok

\* C10: a worklog failure does not roll back the time-tracking entry: the
\* create call is issued at most once, exactly once in every execution
\* that gets past building the payload, and after a worklog failure no
\* further call is made to the time-tracking backend, so the created entry
\* remains.
C10_NoRollback ==
    /\ Cardinality(CallIndices("moco_post")) <= 1
    /\ \A i \in 1..Len(calls) : calls[i].api \in {"moco_post", "add_worklog"}
    /\ (pc # "save" /\ MissingPayloadKeys(entry_data) = <<>>) =>
           Cardinality(CallIndices("moco_post")) = 1
    /\ WorklogFailed =>
           /\ Len(calls) = 2
           /\ calls[1].api = "moco_post"
           /\ activities = <<calls[1].payload>>
           /\ saved.kind = "raise"

\* The create succeeded and the worklog failed.
C10_Witness ==
    /\ pc = "done"
    /\ WorklogFailed
    /\ saved.exc = "SynkError"
    /\ Len(activities) = 1

\* C11: when the entry was created but the worklog write failed, save_entry
\* reports it to its caller as an error of a kind of its own (partial
\* write), one the caller can tell apart from the error reported when the
\* create itself failed.
C11_PartialWriteDistinctKind ==
    (pc = "done" /\ WorklogFailed) =>
        /\ saved.kind = "raise"
        /\ saved.exc # MocoPostError.exc

-----------------------------------------------------------------------------
(* Ticket lookup: search_jira_issues, verify_jira_ticket and
   search_recent_jira_issues.

   config["jira_instances"] is a dict, which iterates in insertion order:
   here a sequence of [name, keys] records with distinct names.  The issue
   tracker behind an instance holds a sequence of issues, in the order it
   answers a search in, and answers a request or fails it. *)

\* str.upper() on the characters of the model's ticket ids.
UpperChar(c) == IF c = "a" THEN "A" ELSE IF c = "b" THEN "B" ELSE c

RECURSIVE Upper(_)
Upper(s) == IF s = <<>> THEN <<>> ELSE <<UpperChar(Head(s))>> \o Upper(Tail(s))

RECURSIVE BeforeDash(_)
\* str.split('-')[0]: the characters before the first '-'.
BeforeDash(s) ==
    IF s = <<>> \/ Head(s) = "-" THEN <<>>
    ELSE <<Head(s)>> \o BeforeDash(Tail(s))

\* ticket_prefix = jira_id_input.split('-')[0].upper()
TicketPrefix(input) == Upper(BeforeDash(input))

\* f'key = "{jira_id_input.upper()}"'
KeyQuery(input) == [jql |-> "key", key |-> Upper(input)]

\* 'assignee = currentUser() AND (status = "In Progress" OR updated >= -14d)
\*  ORDER BY updated DESC'
RecentQuery == [jql |-> "recent", key |-> <<>>]

\* max_results of the two searches.
MaxResultsVerify == 1
MaxResultsRecent == 5

Take(seq, n) == SubSeq(seq, 1, IF Len(seq) < n THEN Len(seq) ELSE n)

\* The issue of a response: its key and its fields.
ResponseIssue(i) == [key |-> i.key, fields |-> [summary |-> i.summary]]

RECURSIVE ResponseIssues(_)
ResponseIssues(issues) ==
    IF issues = <<>> THEN <<>>
    ELSE <<ResponseIssue(Head(issues))>> \o ResponseIssues(Tail(issues))

\* The answer of an issue tracker to /rest/api/3/search/jql: the issues the
\* query matches, in the tracker's order, no more than maxResults of them.
ServerSearch(server, query, max_results) ==
    LET Matches(i) == IF query.jql = "key" THEN i.key = query.key ELSE i.recent
    IN  ResponseIssues(Take(SelectSeq(server.issues, Matches), max_results))

\* search_jira_issues with the request failure left to propagate.
search_jira_issues_raises(query, server, max_results) ==
    IF server.up THEN Return(ServerSearch(server, query, max_results))
    ELSE Raise("RequestException", "{e}")

\* search_jira_issues: the issues of the response; a request failure is
\* printed and an empty list returned.
search_jira_issues(query, server, max_results) ==
    IF server.up THEN Return(ServerSearch(server, query, max_results))
    ELSE Return(<<>>)

Search(name, query, max_results, ok) ==
    [instance |-> name, query |-> query, max_results |-> max_results, ok |-> ok]

\* Lines 176-180 with the scan keeping the last matching instance.
TargetInstance_lastMatch(instances, prefix) ==
    LET hits == {i \in 1..Len(instances) : prefix \in instances[i].keys}
    IN  IF hits = {} THEN 0 ELSE CHOOSE i \in hits : \A j \in hits : j <= i

\* Lines 176-180: the index of the first instance, in iteration order, whose
\* keys contain the prefix; 0 stands for target_instance = None.
TargetInstance(instances, prefix) ==
    LET hits == {i \in 1..Len(instances) : prefix \in instances[i].keys}
    IN  IF hits = {} THEN 0 ELSE CHOOSE i \in hits : \A j \in hits : i <= j

NoInstanceConfigured ==
    "No JIRA instance configured for project key '{ticket_prefix}'. Check your .env file."

\* verify_jira_ticket with an unknown prefix answered like a missing issue.
verify_jira_ticket_noInstanceIsNone(cfg, servers, input, issue_ok) ==
    LET instances == cfg["jira_instances"]
        t == TargetInstance(instances, TicketPrefix(input))
    IN  IF t = 0
        THEN [result |-> Return(None), searches |-> <<>>]
        ELSE LET name == instances[t].name
                 found == search_jira_issues(KeyQuery(input), servers[name],
                                             MaxResultsVerify)
                 search == Search(name, KeyQuery(input), MaxResultsVerify,
                                  servers[name].up)
             IN  IF found.kind = "raise"
                 THEN [result |-> found, searches |-> <<search>>]
                 ELSE IF found.val = <<>>
                 THEN [result |-> Return(None), searches |-> <<search>>]
                 ELSE IF ~issue_ok
                 THEN [result |-> Raise("JIRAError", "{e}"),
                       searches |-> <<search>>]
                 ELSE [result |-> Return(Some(
                           [ issue |-> [client |-> name, key |-> found.val[1].key],
                             jira_id |-> found.val[1].key,
                             jira_client |-> name,
                             summary |-> found.val[1].fields.summary ])),
                       searches |-> <<search>>]

\* verify_jira_ticket: its outcome and the searches it issues.  issue_ok
\* says whether jira_client.issue(jira_id) answers or raises JIRAError,
\* which nothing here catches.
verify_jira_ticket(cfg, servers, input, issue_ok) ==
    LET instances == cfg["jira_instances"]
        t == TargetInstance(instances, TicketPrefix(input))
    IN  IF t = 0
        THEN [result |-> Raise("SynkError", NoInstanceConfigured),
              searches |-> <<>>]
        ELSE LET name == instances[t].name
                 found == search_jira_issues(KeyQuery(input), servers[name],
                                             MaxResultsVerify)
                 search == Search(name, KeyQuery(input), MaxResultsVerify,
                                  servers[name].up)
             IN  IF found.kind = "raise"
                 THEN [result |-> found, searches |-> <<search>>]
                 ELSE IF found.val = <<>>
                 THEN [result |-> Return(None), searches |-> <<search>>]
                 ELSE IF ~issue_ok
                 THEN [result |-> Raise("JIRAError", "{e}"),
                       searches |-> <<search>>]
                 ELSE [result |-> Return(Some(
                           [ issue |-> [client |-> name, key |-> found.val[1].key],
                             jira_id |-> found.val[1].key,
                             jira_client |-> name,
                             summary |-> found.val[1].fields.summary ])),
                       searches |-> <<search>>]

RECURSIVE TagIssues(_, _)
\* for issue in issues: issue['instance_name'] = name
TagIssues(issues, name) ==
    IF issues = <<>> THEN <<>>
    ELSE <<[ key |-> Head(issues).key, fields |-> Head(issues).fields,
             instance_name |-> name ]>> \o TagIssues(Tail(issues), name)

RECURSIVE RecentFrom(_, _, _, _)
\* The loop of search_recent_jira_issues from the i-th instance on.
RecentFrom(instances, servers, i, max_results) ==
    IF i > Len(instances)
    THEN [result |-> Return(<<>>), searches |-> <<>>]
    ELSE LET name == instances[i].name
             issues == search_jira_issues(RecentQuery, servers[name], max_results)
             search == Search(name, RecentQuery, max_results, servers[name].up)
         IN  IF issues.kind = "raise"
             THEN [result |-> issues, searches |-> <<search>>]
             ELSE LET rest == RecentFrom(instances, servers, i + 1, max_results)
                  IN  [ result |->
                            IF rest.result.kind = "raise" THEN rest.result
                            ELSE Return(TagIssues(issues.val, name)
                                        \o rest.result.val),
                        searches |-> <<search>> \o rest.searches ]

\* search_recent_jira_issues asking for ten issues of each instance.
search_recent_jira_issues_asksTen(cfg, servers) ==
    RecentFrom(cfg["jira_instances"], servers, 1, 2 * MaxResultsRecent)

\* search_recent_jira_issues: its outcome and the searches it issues.
search_recent_jira_issues(cfg, servers) ==
    RecentFrom(cfg["jira_instances"], servers, 1, MaxResultsRecent)

-----------------------------------------------------------------------------
(* The ticket lookup's specification: any configuration of up to two
   instances, any state of their issue trackers, any ticket id; then one of
   the two lookups. *)

InstanceNames == {"work", "client"}

KeySets == { {<<"A">>}, {<<"A">>, <<"B">>}, {<<"B">>}, {<<>>} }

Issue(project_key, number, is_recent) ==
    [ key |-> <<project_key, "-", number>>,
      summary |-> <<"s", number>>,
      recent |-> is_recent ]

\* What an issue tracker may hold, in its answering order.
ServerIssues ==
    { <<>>,
      <<Issue("A", "1", TRUE)>>,
      <<Issue("A", "2", TRUE), Issue("A", "1", FALSE)>>,
      <<Issue("B", "1", TRUE), Issue("A", "1", TRUE)>>,
      <<Issue("A", "6", TRUE), Issue("A", "5", TRUE), Issue("A", "4", TRUE),
        Issue("A", "3", TRUE), Issue("A", "2", TRUE), Issue("A", "1", TRUE)>> }

Servers == [issues : ServerIssues, up : BOOLEAN]

\* The dicts of instances: sequences of instances with distinct names.
InstanceNameOrders ==
    { <<>> } \cup { <<n>> : n \in InstanceNames }
    \cup { p \in InstanceNames \X InstanceNames : p[1] # p[2] }

JiraInstances ==
    UNION { { [i \in 1..Len(order) |-> [name |-> order[i], keys |-> ks[i]]] :
                ks \in [1..Len(order) -> KeySets] } :
            order \in InstanceNameOrders }

TicketInputs ==
    { <<"A", "-", "1">>, <<"a", "-", "1">>, <<"B", "-", "1">>,
      <<"A", "-", "7">>, <<"C", "-", "1">>, <<"A">>, <<>> }

NamesOf(instances) == {instances[i].name : i \in 1..Len(instances)}

InitJira ==
    /\ IdleDay
    /\ pc = "jira"
    /\ \E instances \in JiraInstances :
           /\ config = [jira_instances |-> instances]
           /\ jira_servers \in [NamesOf(instances) -> Servers]
    /\ jira_id_input \in TicketInputs
    /\ searches = <<>>
    /\ verified = NotCalled
    /\ recent = NotCalled
    /\ IdleParse
    /\ start_time_str = <<>> /\ end_input = <<>> /\ project = None
    /\ calc = NotCalled
    /\ IdleSave
    /\ IdleTasks
    /\ IdleProjects

VerifyJiraTicket ==
    /\ pc = "jira"
    /\ \E issue_ok \in BOOLEAN :
           LET r == verify_jira_ticket(config, jira_servers, jira_id_input, issue_ok)
           IN  /\ verified' = r.result
               /\ searches' = searches \o r.searches
    /\ pc' = "verified"
    /\ UNCHANGED <<dayVars, jira_servers, jira_id_input, recent, parseVars, calcVars,
                   saveVars, taskVars, projectVars>>

SearchRecentJiraIssues ==
    /\ pc = "jira"
    /\ LET r == search_recent_jira_issues(config, jira_servers)
       IN  /\ recent' = r.result
           /\ searches' = searches \o r.searches
    /\ pc' = "searched"
    /\ UNCHANGED <<dayVars, jira_servers, jira_id_input, verified, parseVars, calcVars,
                   saveVars, taskVars, projectVars>>

NextJira == VerifyJiraTicket \/ SearchRecentJiraIssues

SpecJira == InitJira /\ [][NextJira]_vars

-----------------------------------------------------------------------------
(* Claims about the ticket lookup, checked under SpecJira *)

Verified == pc = "verified"
Searched == pc = "searched"

Instances == config["jira_instances"]

\* The claim's own reading of the prefix: the text before the first '-',
\* uppercased.
ClaimPrefix ==
    LET dashes == {i \in 1..Len(jira_id_input) : jira_id_input[i] = "-"}
        n == IF dashes = {} THEN Len(jira_id_input)
             ELSE (CHOOSE i \in dashes : \A j \in dashes : i <= j) - 1
    IN  [i \in 1..n |-> UpperChar(jira_id_input[i])]

Matching == {i \in 1..Len(Instances) : ClaimPrefix \in Instances[i].keys}

\* The issue tracker of the i-th instance holds the ticket asked for.
Holds(i) ==
    \E k \in 1..Len(jira_servers[Instances[i].name].issues) :
        jira_servers[Instances[i].name].issues[k].key
            = [c \in 1..Len(jira_id_input) |-> UpperChar(jira_id_input[c])]

NotFound == verified.kind = "return" /\ ~verified.val.some
NoInstance == verified.kind = "raise" /\ verified.msg = NoInstanceConfigured

\* C12: verify_jira_ticket tells two failures apart.  A ticket id whose
\* uppercased prefix (the text before the first '-') is in no configured
\* instance's key set fails with the "no instance configured" error and
\* issues no search; a ticket id whose prefix matches but whose issue no
\* matching instance holds gives the separate "not found" outcome, after a
\* search.  Neither outcome is ever given for the other case.
C12_TwoFailureKinds ==
    Verified =>
        /\ Matching = {} =>
               /\ NoInstance
               /\ verified.exc = "SynkError"
               /\ searches = <<>>
        /\ (Matching # {} /\ \A i \in Matching : ~Holds(i)) =>
               /\ NotFound
               /\ Len(searches) = 1
        /\ NoInstance => Matching = {}
        /\ NotFound => Matching # {}

\* Two instances, none with the prefix C: the lookup of "C-1" fails with
\* the configuration error and searches nothing.
C12_Witness ==
    /\ Verified
    /\ jira_id_input = <<"C", "-", "1">>
    /\ Len(Instances) = 2
    /\ NoInstance
    /\ searches = <<>>

\* The claim's own reading of the selected instance: the first, in
\* iteration order, whose key set contains the prefix.
First(S) == CHOOSE i \in S : \A j \in S : i <= j

\* C13: verify_jira_ticket scans the instances in their iteration order and
\* selects the first whose key set contains the prefix; exactly one search
\* is issued, against that instance only, so that when prefixes collide a
\* later matching instance is never queried, even if the first one does not
\* hold the issue.
C13_FirstMatchOnly ==
    (Verified /\ Matching # {}) =>
        /\ Len(searches) = 1
        /\ searches[1].instance = Instances[First(Matching)].name
        /\ searches[1].query.jql = "key"
        /\ ~Holds(First(Matching)) => NotFound
        /\ (verified.kind = "return" /\ verified.val.some) =>
               /\ Holds(First(Matching))
               /\ verified.val.val.jira_client = Instances[First(Matching)].name

\* Both instances have the prefix A; the first does not hold A-1 and
\* answers, the second holds it: the ticket is not found and the second is
\* not asked.
C13_Witness ==
    /\ Verified
    /\ jira_id_input = <<"A", "-", "1">>
    /\ Matching = {1, 2}
    /\ jira_servers[Instances[1].name].up
    /\ ~Holds(1)
    /\ Holds(2) /\ jira_servers[Instances[2].name].up
    /\ NotFound
    /\ Len(searches) = 1

\* The results tagged with the name of the i-th instance.
ResultsOf(i) ==
    SelectSeq(recent.val, LAMBDA r : r.instance_name = Instances[i].name)

\* The issues of the i-th instance's tracker that the recent search matches.
RecentIssuesOf(i) ==
    SelectSeq(jira_servers[Instances[i].name].issues, LAMBDA x : x.recent)

Min(a, b) == IF a < b THEN a ELSE b

\* C14: a failing search request is not fatal to either lookup.  It raises
\* nothing and counts as an empty result: verify_jira_ticket reports "not
\* found", and search_recent_jira_issues still returns the results of every
\* instance whose request succeeded, and none for the one that failed.
C14_RequestFailureNotFatal ==
    /\ (Verified /\ \E k \in 1..Len(searches) : ~searches[k].ok) => NotFound
    /\ Searched =>
           /\ recent.kind = "return"
           /\ \A i \in 1..Len(Instances) :
                  IF jira_servers[Instances[i].name].up
                  THEN Len(ResultsOf(i)) = Min(5, Len(RecentIssuesOf(i)))
                  ELSE ResultsOf(i) = <<>>

\* The first instance's request fails and the second's succeeds: the
\* second's issues are returned.
C14_Witness ==
    /\ Searched
    /\ Len(Instances) = 2
    /\ ~jira_servers[Instances[1].name].up
    /\ jira_servers[Instances[2].name].up
    /\ recent.kind = "return"
    /\ Len(recent.val) = 2

\* The position of the instance a result is tagged with.
InstanceIndex(r) == CHOOSE i \in 1..Len(Instances) : Instances[i].name = r.instance_name

\* C15: search_recent_jira_issues queries every configured instance once, in
\* iteration order, and returns the concatenation of the per-instance
\* results in that order: every result carries the name of the instance it
\* came from, the results of one instance keep the order they were received
\* in, nothing is re-sorted across instances, and an instance contributes
\* at most 5 results.
C15_RecentConcatenated ==
    Searched =>
        /\ Len(searches) = Len(Instances)
        /\ \A i \in 1..Len(Instances) :
               /\ searches[i].instance = Instances[i].name
               /\ searches[i].query.jql = "recent"
        /\ \A k \in 1..Len(recent.val) :
               recent.val[k].instance_name \in NamesOf(Instances)
        /\ \A k \in 1..Len(recent.val) : \A l \in k..Len(recent.val) :
               InstanceIndex(recent.val[k]) <= InstanceIndex(recent.val[l])
        /\ \A i \in 1..Len(Instances) :
               /\ Len(ResultsOf(i)) <= 5
               /\ Len(ResultsOf(i)) <= Len(RecentIssuesOf(i))
               /\ \A k \in 1..Len(ResultsOf(i)) :
                      /\ ResultsOf(i)[k].key = RecentIssuesOf(i)[k].key
                      /\ ResultsOf(i)[k].fields.summary = RecentIssuesOf(i)[k].summary
        /\ Len(recent.val) <= 5 * Len(Instances)

\* Two instances answer, the first with six recent issues: five of them
\* are returned, followed by the second's.
C15_Witness ==
    /\ Searched
    /\ Len(Instances) = 2
    /\ Len(RecentIssuesOf(1)) = 6
    /\ Len(ResultsOf(1)) = 5
    /\ Len(ResultsOf(2)) = 2
    /\ recent.val[1].instance_name = Instances[1].name
    /\ recent.val[7].instance_name = Instances[2].name

-----------------------------------------------------------------------------
(* get_task_choices *)

\* The characters of the model's task names, patterns and time tags, in
\* code point order.
CharOrder ==
    <<" ", "(", ")", "-", "0", "1", "2", "3", "4", "5", "6", "7", "8", "9", ":",
      "A", "B", "M", "^", "a", "b", "m", "|", "U+0663">>
Ord(c) == CHOOSE i \in 1..Len(CharOrder) : CharOrder[i] = c

\* str.lower()
LowerChar(c) ==
    IF c = "A" THEN "a" ELSE IF c = "B" THEN "b" ELSE IF c = "M" THEN "m" ELSE c

RECURSIVE Lower(_)
Lower(s) == IF s = <<>> THEN <<>> ELSE <<LowerChar(Head(s))>> \o Lower(Tail(s))

RECURSIVE StrLess(_, _)
\* a < b for two str: lexicographic, by code point.
StrLess(a, b) ==
    IF b = <<>> THEN FALSE
    ELSE IF a = <<>> THEN TRUE
    ELSE IF Head(a) = Head(b) THEN StrLess(Tail(a), Tail(b))
    ELSE Ord(Head(a)) < Ord(Head(b))

\* The patterns of the model are literal characters, with or without a "^"
\* in front, and patterns with a "(" that nothing closes, which re refuses
\* to compile.
RegexValid(pattern) == \A i \in 1..Len(pattern) : pattern[i] # "("

\* re.search(pattern, string): whether there is a match, or re.error.
re_search(pattern, string) ==
    IF ~RegexValid(pattern)
    THEN Raise("re.error", "missing ), unterminated subpattern")
    ELSE LET anchored == pattern # <<>> /\ Head(pattern) = "^"
             literal == IF anchored THEN Tail(pattern) ELSE pattern
             At(k) == /\ k + Len(literal) - 1 <= Len(string)
                      /\ SubSeq(string, k, k + Len(literal) - 1) = literal
         IN  Return(IF anchored THEN At(1)
                    ELSE \E k \in 1..(Len(string) + 1) : At(k))

\* t.get('name', '')
TaskName(t) == GetStr(t, "name", <<>>)

\* t.get('billable', True)
Billable(t) == IF "billable" \in DOMAIN t THEN t["billable"] ELSE TRUE

InvalidTaskFilter == "Invalid TASK_FILTER_REGEX in .env file: {e}"

RECURSIVE FilterTasks_keepsMatches(_, _)
\* The filter with its condition inverted.
FilterTasks_keepsMatches(tasks, pattern) ==
    IF tasks = <<>> THEN Return(<<>>)
    ELSE LET m == re_search(pattern, TaskName(Head(tasks)))
         IN  IF m.kind = "raise" THEN Raise("SynkError", InvalidTaskFilter)
             ELSE LET rest == FilterTasks_keepsMatches(Tail(tasks), pattern)
                  IN  IF rest.kind = "raise" THEN rest
                      ELSE Return((IF m.val THEN <<Head(tasks)>> ELSE <<>>)
                                  \o rest.val)

RECURSIVE FilterTasks(_, _)
\* Lines 151-157: the tasks whose name the pattern does not match; re.error
\* from the search of a task's name is raised again as SynkError.
FilterTasks(tasks, pattern) ==
    IF tasks = <<>> THEN Return(<<>>)
    ELSE LET m == re_search(pattern, TaskName(Head(tasks)))
         IN  IF m.kind = "raise" THEN Raise("SynkError", InvalidTaskFilter)
             ELSE LET rest == FilterTasks(Tail(tasks), pattern)
                  IN  IF rest.kind = "raise" THEN rest
                      ELSE Return((IF m.val THEN <<>> ELSE <<Head(tasks)>>)
                                  \o rest.val)

RECURSIVE BeforeBar(_)
\* str.split('|')[0]
BeforeBar(s) ==
    IF s = <<>> \/ Head(s) = "|" THEN <<>>
    ELSE <<Head(s)>> \o BeforeBar(Tail(s))

\* Lines 161-163: the task with its display_name.
TaskItem(t) ==
    LET base_name == Strip(BeforeBar(TaskName(t)))
    IN  [display_name |-> IF Billable(t) THEN base_name
                          ELSE <<" ", "(">> \o base_name \o <<")">>] @@ t

\* The sort key compared without lowercasing the display name.
SortKeyLess_rawCase(x, y) ==
    \/ Billable(x) /\ ~Billable(y)
    \/ /\ Billable(x) = Billable(y)
       /\ StrLess(x["display_name"], y["display_name"])

\* Line 166: key(x) < key(y) for the key
\* (not t.get('billable', True), t['display_name'].lower()).
SortKeyLess(x, y) ==
    \/ Billable(x) /\ ~Billable(y)
    \/ /\ Billable(x) = Billable(y)
       /\ StrLess(Lower(x["display_name"]), Lower(y["display_name"]))

RECURSIVE InsertTask(_, _)
\* x put before the first element of a sorted list that is greater than x.
InsertTask(sorted, x) ==
    IF sorted = <<>> THEN <<x>>
    ELSE IF SortKeyLess(x, Head(sorted)) THEN <<x>> \o sorted
    ELSE <<Head(sorted)>> \o InsertTask(Tail(sorted), x)

RECURSIVE SortTasks(_)
\* list.sort(key=...): a stable sort.
SortTasks(items) ==
    IF items = <<>> THEN <<>>
    ELSE InsertTask(SortTasks(SubSeq(items, 1, Len(items) - 1)), items[Len(items)])

RECURSIVE TaskItems(_)
TaskItems(tasks) ==
    IF tasks = <<>> THEN <<>>
    ELSE <<TaskItem(Head(tasks))>> \o TaskItems(Tail(tasks))

RECURSIVE FirstMatching(_, _)
\* Line 169: next((t for t in tasks_display if default_task_name and
\* re.search(default_task_name, t.get('name', ''))), None)
FirstMatching(tasks_display, default_task_name) ==
    IF tasks_display = <<>> THEN Return(None)
    ELSE IF ~Truthy(default_task_name)
    THEN FirstMatching(Tail(tasks_display), default_task_name)
    ELSE LET m == re_search(default_task_name.val, TaskName(Head(tasks_display)))
         IN  IF m.kind = "raise" THEN m
             ELSE IF m.val THEN Return(Some(Head(tasks_display)))
             ELSE FirstMatching(Tail(tasks_display), default_task_name)

get_task_choices(cfg, project_data) ==
    LET tasks_original == GetStr(project_data, "tasks", <<>>)
        task_filter_regex == cfg["task_filter_regex"]
        filtered == IF Truthy(task_filter_regex)
                    THEN FilterTasks(tasks_original, task_filter_regex.val)
                    ELSE Return(tasks_original)
    IN  IF filtered.kind = "raise" THEN filtered
        ELSE LET tasks_display == SortTasks(TaskItems(filtered.val))
                 default_task == FirstMatching(tasks_display, cfg["default_task_name"])
             IN  IF default_task.kind = "raise" THEN default_task
                 ELSE Return([tasks |-> tasks_display,
                              default_task |-> default_task.val])

-----------------------------------------------------------------------------
(* get_task_choices' specification: any project of up to MaxTasks tasks,
   any exclusion pattern and default pattern; then the call. *)

\* Most tasks of a project.
MaxTasks == 3

\* The tasks a project may have; the fourth has no 'billable' key and the
\* seventh no 'name' key.
TaskPool ==
    { [id |-> 1, name |-> <<"b">>, billable |-> TRUE],
      [id |-> 2, name |-> <<"a", "M">>, billable |-> TRUE],
      [id |-> 3, name |-> <<"M", "b">>, billable |-> FALSE],
      [id |-> 4, name |-> <<"B", "|", "M">>],
      [id |-> 5, name |-> <<"M", "a">>, billable |-> TRUE],
      [id |-> 6, name |-> <<"A", " ">>, billable |-> FALSE],
      [id |-> 7, billable |-> TRUE] }

\* The task lists: sequences of distinct tasks.
TaskLists ==
    UNION { { l \in [1..n -> TaskPool] :
                \A i \in 1..n : \A j \in 1..n : l[i] = l[j] => i = j } :
            n \in 0..MaxTasks }

\* A pattern setting: not set, empty, or a pattern; the last does not compile.
Patterns ==
    { None, Some(<<>>), Some(<<"^", "M">>), Some(<<"M">>), Some(<<"(">>) }

ProjectData == { [id |-> 11] } \cup { [id |-> 11, tasks |-> l] : l \in TaskLists }

InitTasks ==
    /\ IdleDay
    /\ pc = "tasks"
    /\ config \in [task_filter_regex : Patterns, default_task_name : Patterns]
    /\ selected_project_data \in ProjectData
    /\ task_choices = NotCalled
    /\ IdleParse
    /\ start_time_str = <<>> /\ end_input = <<>> /\ project = None
    /\ calc = NotCalled
    /\ IdleSave
    /\ IdleJira
    /\ IdleProjects

GetTaskChoices ==
    /\ pc = "tasks"
    /\ task_choices' = get_task_choices(config, selected_project_data)
    /\ pc' = "task choices"
    /\ UNCHANGED <<dayVars, selected_project_data, parseVars, calcVars, saveVars,
                   jiraVars, projectVars>>

NextTasks == GetTaskChoices

SpecTasks == InitTasks /\ [][NextTasks]_vars

-----------------------------------------------------------------------------
(* Claims about get_task_choices, checked under SpecTasks *)

TaskChoicesReturned == pc = "task choices" /\ task_choices.kind = "return"

\* The project's tasks, in the backend's order.
BackendTasks ==
    IF "tasks" \in DOMAIN selected_project_data
    THEN selected_project_data["tasks"] ELSE <<>>

TasksOut == task_choices.val.tasks

\* A pattern is configured when the setting is present and not empty.
Configured(setting) == config[setting].some /\ config[setting].val # <<>>

\* The claim's own reading of a match, for the patterns that compile: with
\* "^" the name begins with the rest of the pattern, without it the pattern
\* occurs somewhere in the name.
ClaimMatches(pattern, name) ==
    IF Head(pattern) = "^"
    THEN /\ Len(name) >= Len(pattern) - 1
         /\ \A i \in 2..Len(pattern) : name[i - 1] = pattern[i]
    ELSE \E k \in 0..Len(name) :
             /\ k + Len(pattern) <= Len(name)
             /\ \A i \in 1..Len(pattern) : name[k + i] = pattern[i]

ClaimCompiles(pattern) == pattern # <<"(">>

ClaimName(t) == IF "name" \in DOMAIN t THEN t["name"] ELSE <<>>

Excluded(t) ==
    /\ Configured("task_filter_regex")
    /\ ClaimCompiles(config["task_filter_regex"].val)
    /\ ClaimMatches(config["task_filter_regex"].val, ClaimName(t))

\* C16: a task whose name matches the configured exclusion pattern never
\* appears in the list get_task_choices returns, whatever its billable
\* status and its place in the order, and every task that does not match
\* appears in it exactly once; the list holds nothing but the project's
\* tasks.
C16_ExcludedNeverListed ==
    TaskChoicesReturned =>
        /\ \A k \in 1..Len(TasksOut) :
               /\ ~Excluded(TasksOut[k])
               /\ \E i \in 1..Len(BackendTasks) : BackendTasks[i]["id"] = TasksOut[k]["id"]
        /\ \A i \in 1..Len(BackendTasks) :
               ~Excluded(BackendTasks[i]) =>
                   Cardinality({k \in 1..Len(TasksOut) :
                                  TasksOut[k]["id"] = BackendTasks[i]["id"]}) = 1

\* With the pattern "^M", of a billable "Ma", a non-billable "Mb" and
\* "aM", only "aM" is listed.
C16_Witness ==
    /\ TaskChoicesReturned
    /\ config["task_filter_regex"] = Some(<<"^", "M">>)
    /\ {BackendTasks[i]["id"] : i \in 1..Len(BackendTasks)} = {2, 3, 5}
    /\ Len(TasksOut) = 1
    /\ TasksOut[1]["id"] = 2

ClaimBillable(t) == IF "billable" \in DOMAIN t THEN t["billable"] ELSE TRUE

\* C17: in the list get_task_choices returns, all billable tasks precede
\* all non-billable tasks, and within each group the tasks are in ascending
\* order of their lowercased display_name.
C17_BillableFirstThenName ==
    TaskChoicesReturned =>
        \A k \in 1..Len(TasksOut) : \A l \in (k + 1)..Len(TasksOut) :
            /\ ClaimBillable(TasksOut[l]) => ClaimBillable(TasksOut[k])
            /\ ClaimBillable(TasksOut[k]) = ClaimBillable(TasksOut[l]) =>
                   ~StrLess(Lower(TasksOut[l]["display_name"]),
                            Lower(TasksOut[k]["display_name"]))

\* "aM" comes before "B", whose capital would sort first, and both come
\* before the non-billable " (Mb)".
C17_Witness ==
    /\ TaskChoicesReturned
    /\ Len(TasksOut) = 3
    /\ TasksOut[1]["display_name"] = <<"a", "M">>
    /\ TasksOut[2]["display_name"] = <<"B">>
    /\ TasksOut[3]["display_name"] = <<" ", "(", "M", "b", ")">>

\* The tasks left after the exclusion whose raw name matches the default
\* pattern, by their place in the backend's order.
DefaultCandidates ==
    {i \in 1..Len(BackendTasks) :
        /\ ~Excluded(BackendTasks[i])
        /\ Configured("default_task_name")
        /\ ClaimCompiles(config["default_task_name"].val)
        /\ ClaimMatches(config["default_task_name"].val, ClaimName(BackendTasks[i]))}

\* C18: the default task get_task_choices returns is the first task, in the
\* filtered and not yet sorted set (the backend's order), whose raw name
\* matches the default-name pattern; it is None when no pattern is
\* configured or no remaining task matches, and an excluded task is never
\* the default.
C18_DefaultFirstInBackendOrder ==
    TaskChoicesReturned =>
        IF DefaultCandidates = {}
        THEN ~task_choices.val.default_task.some
        ELSE /\ task_choices.val.default_task.some
             /\ task_choices.val.default_task.val["id"]
                    = BackendTasks[First(DefaultCandidates)]["id"]

\* C19: whenever the configured exclusion pattern is not a valid regular
\* expression, get_task_choices fails with SynkError instead of returning
\* a task list, for every project it is called with, a project with no
\* tasks included.
C19_InvalidFilterFatal ==
    (pc = "task choices" /\ Configured("task_filter_regex")
     /\ ~ClaimCompiles(config["task_filter_regex"].val)) =>
        /\ task_choices.kind = "raise"
        /\ task_choices.exc = "SynkError"

-----------------------------------------------------------------------------
(* get_project_choices *)

\* x.get('active', False)
Active(x) == IF "active" \in DOMAIN x THEN x["active"] ELSE FALSE

\* p.get('tasks', [])
TasksOf(p) == IF "tasks" \in DOMAIN p THEN p["tasks"] ELSE <<>>

\* p.get('customer', {}).get('name', '')
CustomerOf(p) ==
    IF "customer" \in DOMAIN p /\ "name" \in DOMAIN p["customer"]
    THEN p["customer"]["name"] ELSE <<>>

\* x.get('project', {}).get('id'), with 0 for None: the code tests its truth.
ProjectIdOf(x) ==
    IF "project" \in DOMAIN x /\ "id" \in DOMAIN x["project"]
    THEN x["project"]["id"] ELSE 0

\* Lines 119-123: project_usage_counts.get(id, 0)
UsageCount(recent_activities, id) ==
    Cardinality({k \in 1..Len(recent_activities) :
                   ProjectIdOf(recent_activities[k]) # 0
                   /\ ProjectIdOf(recent_activities[k]) = id})

\* The test of line 127 with any task taken for an active one.
Eligible_anyTask(p) == Active(p) /\ TasksOf(p) # <<>>

\* Line 127: the project is active and has an active task.
Eligible(p) ==
    Active(p) /\ \E k \in 1..Len(TasksOf(p)) : Active(TasksOf(p)[k])

\* Line 129: p['tasks'] = the active tasks of p.
WithActiveTasks(p) == [tasks |-> SelectSeq(TasksOf(p), Active)] @@ p

RECURSIVE EligibleProjects(_)
\* Lines 127-129
EligibleProjects(all_assigned_projects) ==
    IF all_assigned_projects = <<>> THEN <<>>
    ELSE (IF Eligible(Head(all_assigned_projects))
          THEN <<WithActiveTasks(Head(all_assigned_projects))>> ELSE <<>>)
         \o EligibleProjects(Tail(all_assigned_projects))

\* The key with the usage count ascending.
ProjectKeyLess_usageAscending(x, y, recent_activities) ==
    LET cx == Lower(CustomerOf(x))
        cy == Lower(CustomerOf(y))
        ux == UsageCount(recent_activities, x["id"])
        uy == UsageCount(recent_activities, y["id"])
    IN  \/ StrLess(cx, cy)
        \/ cx = cy /\ ux < uy
        \/ cx = cy /\ ux = uy
           /\ StrLess(Lower(GetStr(x, "name", <<>>)), Lower(GetStr(y, "name", <<>>)))

\* Line 132: key(x) < key(y) for the key (customer name lowercased,
\* -usage count, project name lowercased).
ProjectKeyLess(x, y, recent_activities) ==
    LET cx == Lower(CustomerOf(x))
        cy == Lower(CustomerOf(y))
        ux == UsageCount(recent_activities, x["id"])
        uy == UsageCount(recent_activities, y["id"])
    IN  \/ StrLess(cx, cy)
        \/ cx = cy /\ ux > uy
        \/ cx = cy /\ ux = uy
           /\ StrLess(Lower(GetStr(x, "name", <<>>)), Lower(GetStr(y, "name", <<>>)))

RECURSIVE InsertProject(_, _, _)
InsertProject(sorted, x, recent_activities) ==
    IF sorted = <<>> THEN <<x>>
    ELSE IF ProjectKeyLess(x, Head(sorted), recent_activities) THEN <<x>> \o sorted
    ELSE <<Head(sorted)>> \o InsertProject(Tail(sorted), x, recent_activities)

RECURSIVE SortProjects(_, _)
\* assigned_projects.sort(key=...): a stable sort.
SortProjects(items, recent_activities) ==
    IF items = <<>> THEN <<>>
    ELSE InsertProject(SortProjects(SubSeq(items, 1, Len(items) - 1), recent_activities),
                       items[Len(items)], recent_activities)

\* The default exchanged with the first project instead of moved in front
\* of it.
MoveLastProject_swaps(projects, last) ==
    IF ~last.some \/ DOMAIN last.val = {}
    THEN [projects |-> projects, default_project |-> None]
    ELSE LET hits == {i \in 1..Len(projects) :
                         projects[i]["id"] = ProjectIdOf(last.val)}
         IN  IF hits = {}
             THEN [projects |-> projects, default_project |-> None]
             ELSE LET i == CHOOSE h \in hits : \A g \in hits : h <= g
                  IN  [ projects |-> [k \in 1..Len(projects) |->
                                         IF k = 1 THEN projects[i]
                                         ELSE IF k = i THEN projects[1]
                                         ELSE projects[k]],
                        default_project |-> Some(projects[i]) ]

\* Lines 134-141: the last activity's project, when it is in the list, is
\* moved to the front and is the default.  An empty dict is not a last
\* activity.
MoveLastProject(projects, last) ==
    IF ~last.some \/ DOMAIN last.val = {}
    THEN [projects |-> projects, default_project |-> None]
    ELSE LET hits == {i \in 1..Len(projects) :
                         projects[i]["id"] = ProjectIdOf(last.val)}
         IN  IF hits = {}
             THEN [projects |-> projects, default_project |-> None]
             ELSE LET i == CHOOSE h \in hits : \A g \in hits : h <= g
                  IN  [ projects |-> <<projects[i]>>
                                     \o SubSeq(projects, 1, i - 1)
                                     \o SubSeq(projects, i + 1, Len(projects)),
                        default_project |-> Some(projects[i]) ]

\* get_project_choices once both requests have answered.
get_project_choices(recent_activities, all_assigned_projects, last) ==
    MoveLastProject(SortProjects(EligibleProjects(all_assigned_projects),
                                 recent_activities), last)

\* Line 114: the usage range starts this many days before today.
UsageDays == 28

\* The backend's answer to GET activities with 'from' and 'to': the
\* activities it holds whose date is in the range, both ends included.  A
\* date is a number of days from today: 0 is today, -1 yesterday.
ActivitiesBetween(held, from, to) ==
    SelectSeq(held, LAMBDA a : from <= a["date"] /\ a["date"] <= to)

\* What moco_get raises when a request fails.
MocoGetError == Raise("SynkError", "Moco API Error on GET {endpoint}: {e}")

\* get_project_choices: the recent activities are fetched, then the
\* assigned projects; a failed request ends the call with SynkError.
GetProjectChoices ==
    /\ pc = "projects"
    /\ \E activities_ok \in BOOLEAN, projects_ok \in BOOLEAN :
           IF ~activities_ok
           THEN /\ calls' = Append(calls, Call("moco_get", "activities", FALSE))
                /\ project_choices' = MocoGetError
           ELSE IF ~projects_ok
           THEN /\ calls' = calls \o << Call("moco_get", "activities", TRUE),
                                        Call("moco_get", "projects/assigned", FALSE) >>
                /\ project_choices' = MocoGetError
           ELSE /\ calls' = calls \o << Call("moco_get", "activities", TRUE),
                                        Call("moco_get", "projects/assigned", TRUE) >>
                /\ project_choices' =
                       Return(get_project_choices(
                                  ActivitiesBetween(activities, 0 - UsageDays, 0),
                                  assigned_projects, last_activity))
    /\ pc' = "project choices"
    /\ UNCHANGED <<dayVars, activities, entry_data, saved, assigned_projects, last_activity,
                   parseVars, calcVars, jiraVars, taskVars>>

-----------------------------------------------------------------------------
(* get_project_choices' specification: any assigned projects, up to
   MaxProjects of them, any recent activities and last activity; then the
   call. *)

\* Most projects the backend answers with.
MaxProjects == 3

Task(id, active) == [id |-> id, active |-> active]

\* The projects the backend may answer with: inactive ones, ones with no
\* active task, with no 'active', 'tasks' or 'customer' key among them.
ProjectPool ==
    { [id |-> 1, name |-> <<"b">>, active |-> TRUE, customer |-> [name |-> <<"A">>],
       tasks |-> <<Task(1, TRUE), Task(2, FALSE)>>],
      [id |-> 2, name |-> <<"a">>, active |-> TRUE, customer |-> [name |-> <<"A">>],
       tasks |-> <<Task(3, TRUE)>>],
      [id |-> 3, name |-> <<"B">>, active |-> FALSE, customer |-> [name |-> <<"a">>],
       tasks |-> <<Task(4, TRUE)>>],
      [id |-> 4, name |-> <<"M">>, active |-> TRUE,
       tasks |-> <<Task(5, FALSE), [id |-> 6]>>],
      [id |-> 5, name |-> <<"A">>, active |-> TRUE, customer |-> [name |-> <<"a">>],
       tasks |-> <<[id |-> 7], Task(8, TRUE), Task(9, TRUE)>>],
      [id |-> 6, name |-> <<"m">>, customer |-> [name |-> <<"b">>],
       tasks |-> <<Task(10, TRUE)>>],
      [id |-> 7, name |-> <<"a">>, active |-> TRUE, customer |-> [name |-> <<"b">>]] }

AssignedProjects ==
    UNION { { l \in [1..n -> ProjectPool] :
                \A i \in 1..n : \A j \in 1..n : l[i] = l[j] => i = j } :
            n \in 0..MaxProjects }

ActivityOn(id, project_id) == [id |-> id, project |-> [id |-> project_id]]

ActivityAt(id, project_id, day) ==
    [id |-> id, project |-> [id |-> project_id], date |-> day]

\* The activities the backend may hold, some of them older than the usage
\* range.
RecentActivities ==
    { <<>>,
      <<ActivityAt(1, 1, 0)>>,
      <<ActivityAt(1, 2, 0 - 1), ActivityAt(2, 5, 0 - UsageDays), ActivityAt(3, 5, 0)>>,
      <<[id |-> 1, date |-> 0], ActivityAt(2, 1, 0 - 3), ActivityAt(3, 1, 0 - 3)>>,
      <<ActivityAt(1, 2, 0 - UsageDays - 1), ActivityAt(2, 2, 0 - UsageDays - 1),
        ActivityAt(3, 1, 0 - UsageDays)>> }

LastActivities ==
    { None, Some(EmptyDict), Some([id |-> 3]), Some(ActivityOn(3, 1)),
      Some(ActivityOn(3, 4)), Some(ActivityOn(3, 5)) }

InitProjects ==
    /\ IdleDay
    /\ pc = "projects"
    /\ activities \in RecentActivities
    /\ assigned_projects \in AssignedProjects
    /\ last_activity \in LastActivities
    /\ project_choices = NotCalled
    /\ entry_data = <<>> /\ calls = <<>> /\ saved = NotCalled
    /\ IdleParse
    /\ IdleCalc
    /\ IdleJira
    /\ IdleTasks

NextProjects == GetProjectChoices

SpecProjects == InitProjects /\ [][NextProjects]_vars

-----------------------------------------------------------------------------
(* Claims about get_project_choices, checked under SpecProjects *)

ProjectChoicesReturned ==
    pc = "project choices" /\ project_choices.kind = "return"

ProjectsOut == project_choices.val.projects

\* The claim's own reading: the key is there and true.
ClaimActive(x) == "active" \in DOMAIN x /\ x["active"] = TRUE

ClaimEligible(p) ==
    /\ ClaimActive(p)
    /\ "tasks" \in DOMAIN p
    /\ \E k \in 1..Len(p["tasks"]) : ClaimActive(p["tasks"][k])

\* C20: the project list get_project_choices returns contains exactly the
\* assigned projects that are active and have at least one active task,
\* each exactly once, and the task list of every returned project contains
\* only active tasks, all of them tasks of that project.
C20_ActiveProjectsActiveTasks ==
    ProjectChoicesReturned =>
        /\ \A k \in 1..Len(ProjectsOut) :
               \E i \in 1..Len(assigned_projects) :
                   /\ assigned_projects[i]["id"] = ProjectsOut[k]["id"]
                   /\ ClaimEligible(assigned_projects[i])
                   /\ \A t \in 1..Len(ProjectsOut[k]["tasks"]) :
                          /\ ClaimActive(ProjectsOut[k]["tasks"][t])
                          /\ \E u \in 1..Len(assigned_projects[i]["tasks"]) :
                                 assigned_projects[i]["tasks"][u]
                                     = ProjectsOut[k]["tasks"][t]
        /\ \A i \in 1..Len(assigned_projects) :
               ClaimEligible(assigned_projects[i]) =>
                   Cardinality({k \in 1..Len(ProjectsOut) :
                                  ProjectsOut[k]["id"] = assigned_projects[i]["id"]}) = 1

\* Of an active project with an active and an inactive task, an inactive
\* project and an active project without an active task, the first alone is
\* returned, with its active task.
C20_Witness ==
    /\ ProjectChoicesReturned
    /\ {assigned_projects[i]["id"] : i \in 1..Len(assigned_projects)} = {1, 3, 4}
    /\ Len(ProjectsOut) = 1
    /\ ProjectsOut[1]["id"] = 1
    /\ ProjectsOut[1]["tasks"] = <<Task(1, TRUE)>>

\* The returned projects without the default at the front.
SortedPart ==
    IF project_choices.val.default_project.some
    THEN Tail(ProjectsOut) ELSE ProjectsOut

\* The claim's own reading of the usage count: the activities on the
\* project dated in the 28 days before today or today.
ClaimUsage(p) ==
    Cardinality({k \in 1..Len(activities) :
                   /\ "project" \in DOMAIN activities[k]
                   /\ activities[k]["project"]["id"] = p["id"]
                   /\ activities[k]["date"] \in (0 - 28)..0})

ClaimCustomer(p) ==
    IF "customer" \in DOMAIN p THEN Lower(p["customer"]["name"]) ELSE <<>>

\* The claim's own reading of the order: x must not come after y.
ClaimBefore(x, y) ==
    \/ StrLess(ClaimCustomer(x), ClaimCustomer(y))
    \/ /\ ClaimCustomer(x) = ClaimCustomer(y)
       /\ \/ ClaimUsage(x) > ClaimUsage(y)
          \/ /\ ClaimUsage(x) = ClaimUsage(y)
             /\ StrLess(Lower(x["name"]), Lower(y["name"]))

\* C21: apart from a default project moved to the front, the projects
\* get_project_choices returns are ordered by customer name lowercased
\* ascending, then usage count descending, then project name lowercased
\* ascending; the usage count of a project is the number of activities on
\* it in the 28 days up to and including today.
C21_ProjectOrder ==
    ProjectChoicesReturned =>
        \A k \in 1..Len(SortedPart) : \A l \in (k + 1)..Len(SortedPart) :
            ~ClaimBefore(SortedPart[l], SortedPart[k])

\* Within one customer the project used within the range comes before the
\* one whose three activities are a day too old, although its name sorts
\* later.
C21_Witness ==
    /\ ProjectChoicesReturned
    /\ ~project_choices.val.default_project.some
    /\ Len(activities) = 3 /\ activities[1]["date"] = 0 - 29
    /\ Len(ProjectsOut) = 2
    /\ ProjectsOut[1]["id"] = 1 /\ ProjectsOut[1]["name"] = <<"b">>
    /\ ProjectsOut[2]["id"] = 2 /\ ProjectsOut[2]["name"] = <<"a">>

\* The project the last activity was on, when it is among the eligible ones.
LastEligible ==
    {i \in 1..Len(assigned_projects) :
        /\ ClaimEligible(assigned_projects[i])
        /\ last_activity.some
        /\ "project" \in DOMAIN last_activity.val
        /\ last_activity.val["project"]["id"] = assigned_projects[i]["id"]}

\* C22: if the last activity is on a project of the eligible set,
\* get_project_choices returns that project as the default and puts it
\* first, the other projects keep their sort order and none is lost or
\* doubled; with no last activity, or one on a project that is not
\* eligible, the default is None and the whole list is in sort order.
C22_DefaultToFront ==
    ProjectChoicesReturned =>
        /\ IF LastEligible = {}
           THEN ~project_choices.val.default_project.some
           ELSE /\ project_choices.val.default_project.some
                /\ \A i \in LastEligible :
                       /\ project_choices.val.default_project.val["id"]
                              = assigned_projects[i]["id"]
                       /\ ProjectsOut[1]["id"] = assigned_projects[i]["id"]
        /\ \A k \in 1..Len(SortedPart) : \A l \in (k + 1)..Len(SortedPart) :
               ~ClaimBefore(SortedPart[l], SortedPart[k])
        /\ \A i \in 1..Len(assigned_projects) :
               Cardinality({k \in 1..Len(ProjectsOut) :
                              ProjectsOut[k]["id"] = assigned_projects[i]["id"]})
                   = IF ClaimEligible(assigned_projects[i]) THEN 1 ELSE 0

\* The last activity's project sorts last of three: it is returned first
\* and the other two follow in their order.
C22_Witness ==
    /\ ProjectChoicesReturned
    /\ activities = <<>>
    /\ last_activity = Some(ActivityOn(3, 1))
    /\ project_choices.val.default_project.some
    /\ Len(ProjectsOut) = 3
    /\ ProjectsOut[1]["id"] = 1
    /\ ProjectsOut[2]["id"] = 5
    /\ ProjectsOut[3]["id"] = 2

-----------------------------------------------------------------------------
(* The day's ledger: get_daily_entries, get_last_activity and
   get_start_time_suggestion *)

\* Whether r'\((\d{4})-(\d{4})\)' matches at position i of s.  \d is any
\* decimal digit.
TagAt(s, i) ==
    /\ i + 10 <= Len(s)
    /\ s[i] = "(" /\ s[i + 5] = "-" /\ s[i + 10] = ")"
    /\ \A k \in (i + 1)..(i + 4) : s[k] \in DecimalDigits
    /\ \A k \in (i + 6)..(i + 9) : s[k] \in DecimalDigits

\* The search that takes the last match of the description.
TagSearch_lastMatch(s) ==
    LET at == {i \in 1..Len(s) : TagAt(s, i)}
    IN  IF at = {} THEN None
        ELSE LET i == CHOOSE j \in at : \A k \in at : k <= j
             IN  Some(<<SubSeq(s, i + 1, i + 4), SubSeq(s, i + 6, i + 9)>>)

\* re.search(r'\((\d{4})-(\d{4})\)', s): the groups of the leftmost match,
\* or None.
TagSearch(s) ==
    LET at == {i \in 1..Len(s) : TagAt(s, i)}
    IN  IF at = {} THEN None
        ELSE LET i == CHOOSE j \in at : \A k \in at : j <= k
             IN  Some(<<SubSeq(s, i + 1, i + 4), SubSeq(s, i + 6, i + 9)>>)

\* f"{hhmm[:2]}:{hhmm[2:]}"
WithColon(hhmm) == SubSeq(hhmm, 1, 2) \o <<":">> \o SubSeq(hhmm, 3, 4)

\* Lines 96-103: (0, "HH:MM") for a tagged description, else (1, id).
get_sort_key(activity) ==
    LET match == TagSearch(GetStr(activity, "description", <<>>))
    IN  IF match.some THEN <<0, WithColon(match.val[1])>>
        ELSE <<1, activity["id"]>>

\* The order by id alone.
DailyKeyLess_idOnly(x, y) == x["id"] < y["id"]

\* Python's order of two such tuples: the second items are compared only
\* when the first are equal, and are then both strings or both ids.
DailyKeyLess(x, y) ==
    LET kx == get_sort_key(x)
        ky == get_sort_key(y)
    IN  IF kx[1] # ky[1] THEN kx[1] < ky[1]
        ELSE IF kx[1] = 0 THEN StrLess(kx[2], ky[2])
        ELSE kx[2] < ky[2]

RECURSIVE InsertEntry(_, _)
InsertEntry(sorted, x) ==
    IF sorted = <<>> THEN <<x>>
    ELSE IF DailyKeyLess(x, sorted[Len(sorted)])
    THEN Append(InsertEntry(SubSeq(sorted, 1, Len(sorted) - 1), x), sorted[Len(sorted)])
    ELSE Append(sorted, x)

\* activities.sort(key=get_sort_key): a stable sort, equal keys keep the
\* order of the backend's answer.
RECURSIVE SortEntries(_)
SortEntries(items) ==
    IF items = <<>> THEN <<>>
    ELSE InsertEntry(SortEntries(SubSeq(items, 1, Len(items) - 1)), items[Len(items)])

\* Lines 91-106, after the fetch.
get_daily_entries(answer) == SortEntries(answer)

\* x.get('id', 0)
IdOf(x) == IF "id" \in DOMAIN x THEN x["id"] ELSE 0

\* The last activity taken as the first of the backend's answer.
get_last_activity_firstListed(answer) ==
    IF answer = <<>> THEN None ELSE Some(answer[1])

\* Lines 85-89, after the fetch: None for an empty answer; else the first
\* of the answer sorted by id, descending.  The sort is stable, so of the
\* activities with the greatest id the first of the answer is returned.
get_last_activity(answer) ==
    IF answer = <<>> THEN None
    ELSE LET i == CHOOSE j \in 1..Len(answer) :
                      /\ \A k \in 1..Len(answer) : IdOf(answer[k]) <= IdOf(answer[j])
                      /\ \A k \in 1..(j - 1) : IdOf(answer[k]) < IdOf(answer[j])
         IN  Some(answer[i])

\* Lines 206-213: the end of the tag of the last activity's description, as
\* "HH:MM"; None without a last activity (or with an empty one) or a tag.
get_start_time_suggestion(last) ==
    IF last.some /\ last.val # EmptyDict
    THEN LET match == TagSearch(GetStr(last.val, "description", <<>>))
         IN  IF match.some THEN Some(WithColon(match.val[2])) ELSE None
    ELSE None

\* The date the ledger is asked for: today.
Today == 0

\* get_daily_entries: one read of the date's activities, then the sort.
GetDailyEntries ==
    /\ pc = "ledger"
    /\ daily_entries = NotCalled
    /\ \E ok \in BOOLEAN :
           /\ calls' = Append(calls, Call("moco_get", "activities", ok))
           /\ daily_entries' =
                  IF ok
                  THEN Return(get_daily_entries(ActivitiesBetween(activities, Today, Today)))
                  ELSE MocoGetError
    /\ pc' = "ledger read"
    /\ UNCHANGED <<watcherVars, sessionVars, last_fetch, suggestion, activities, entry_data, saved,
                   parseVars, calcVars, lookupVars>>

\* get_last_activity: one read of the date's activities.
GetLastActivity ==
    /\ pc = "ledger"
    /\ last_fetch = NotCalled
    /\ \E ok \in BOOLEAN :
           /\ calls' = Append(calls, Call("moco_get", "activities", ok))
           /\ last_fetch' =
                  IF ok
                  THEN Return(get_last_activity(ActivitiesBetween(activities, Today, Today)))
                  ELSE MocoGetError
    /\ pc' = "ledger read"
    /\ UNCHANGED <<watcherVars, sessionVars, daily_entries, suggestion, activities, entry_data, saved,
                   parseVars, calcVars, lookupVars>>

\* get_start_time_suggestion of the last activity held.
GetStartTimeSuggestion ==
    /\ pc = "ledger"
    /\ suggestion = NotCalled
    /\ suggestion' = Return(get_start_time_suggestion(last_activity))
    /\ pc' = "ledger read"
    /\ UNCHANGED <<watcherVars, sessionVars, daily_entries, last_fetch, saveVars, parseVars, calcVars,
                   lookupVars>>

-----------------------------------------------------------------------------
(* The ledger's specification: a backend holding up to MaxEntries
   activities, one of them possibly the record of an entry save_entry
   built; then one of the three reads. *)

MaxEntries == 3

\* A comment that itself holds a time span in the tag's format.
SpanComment ==
    <<"s", "e", "e", " ", "(", "0", "8", "0", "0", "-", "0", "8", "3", "0", ")">>

LedgerSpans ==
    { TimeSpanOf(FormatHHMM(9, 0), <<"1", "0", "3", "0">>),
      TimeSpanOf(FormatHHMM(23, 0), <<"2">>) }

\* Complete drafts: project, task, time span, with or without a ticket and
\* a comment.
LedgerDrafts ==
    { [selected_project |-> [id |-> 11], selected_task |-> [id |-> 22]]
      @@ j @@ c @@ w :
        j \in { [jira_issue |-> None, jira_id |-> None, jira_client |-> None],
                [jira_issue |-> Some("issue"), jira_id |-> Some(TicketId),
                 jira_client |-> Some("client")] },
        c \in { EmptyDict, [comment |-> <<"f", "i", "x">>], [comment |-> SpanComment] },
        w \in LedgerSpans }

\* The activity the backend holds for a saved entry.
Recorded(e, id) == [id |-> id, date |-> Today, description |-> Description(e)]

Tagged(id, day, from, to) ==
    [ id |-> id, date |-> day,
      description |-> <<"(">> \o StripColons(from) \o <<"-">> \o StripColons(to) \o <<")">> ]

LedgerPool(e) ==
    { Tagged(1, Today, FormatHHMM(9, 0), FormatHHMM(10, 0)),
      [id |-> 2, date |-> Today, description |-> <<"a", " ", "b">>],
      Tagged(3, Today, FormatHHMM(8, 0), FormatHHMM(8, 30)),
      [id |-> 4, date |-> Today],
      Tagged(5, Today - 1, FormatHHMM(7, 0), FormatHHMM(8, 0)),
      Recorded(e, 7) }

\* The backend's lists: up to MaxEntries different activities in any order.
Ledgers(e) ==
    UNION { { l \in [1..n -> LedgerPool(e)] :
                \A i, j \in 1..n : i # j => l[i] # l[j] } : n \in 0..MaxEntries }

InitLedger ==
    /\ entry_data \in LedgerDrafts
    /\ IdleParse
    /\ IdleCalc
    /\ IdleJira
    /\ IdleTasks
    /\ assigned_projects = <<>>
    /\ project_choices = NotCalled
    /\ last_activity \in {None, Some(EmptyDict)}
                          \cup {Some(a) : a \in LedgerPool(entry_data)}
    /\ pc = "ledger"
    /\ activities \in Ledgers(entry_data)
    /\ calls = <<>>
    /\ saved = NotCalled
    /\ IdleLedger
    /\ IdleWatcher
    /\ IdleSession

NextLedger == GetDailyEntries \/ GetLastActivity \/ GetStartTimeSuggestion

SpecLedger == InitLedger /\ [][NextLedger]_vars

-----------------------------------------------------------------------------
(* The ledger's claims *)

DailyEntriesReturned == daily_entries.kind = "return"
EntriesOut == daily_entries.val

\* The activities the backend holds for the date.
OfToday == {activities[k] : k \in {i \in 1..Len(activities) : activities[i]["date"] = 0}}

\* The claim's own reading of a tag: at position i an opening bracket, four
\* digits, a dash, four digits, a closing bracket.
ClaimDigits == {"0", "1", "2", "3", "4", "5", "6", "7", "8", "9"}
ClaimTagIn(d, i) ==
    /\ i + 10 <= Len(d)
    /\ d[i] = "(" /\ d[i + 5] = "-" /\ d[i + 10] = ")"
    /\ \A k \in {1, 2, 3, 4, 6, 7, 8, 9} : d[i + k] \in ClaimDigits
ClaimText(a) == IF "description" \in DOMAIN a THEN a["description"] ELSE <<>>
ClaimTagPositions(a) ==
    {i \in 1..Len(ClaimText(a)) : ClaimTagIn(ClaimText(a), i)}
ClaimTagged(a) == ClaimTagPositions(a) # {}

\* The digits from position i on as a number.
ClaimNumber(d, i) ==
    LET v(c) == CHOOSE n \in 0..9 : ToString(n) = c
    IN  1000 * v(d[i]) + 100 * v(d[i + 1]) + 10 * v(d[i + 2]) + v(d[i + 3])

\* The start time of the tag of a description, as the number HHMM; of
\* several tags, the first is the description's tag.
ClaimTagStart(a) ==
    ClaimNumber(ClaimText(a), First(ClaimTagPositions(a)) + 1)
ClaimTagEnd(a) ==
    ClaimNumber(ClaimText(a), First(ClaimTagPositions(a)) + 6)

\* C23: get_daily_entries returns all activities of the date, every
\* activity whose description holds a (HHMM-HHMM) tag before every activity
\* without one; the tagged ones in ascending order of the tag's start time,
\* the untagged ones in ascending order of id.
C23_DailyEntriesOrder ==
    DailyEntriesReturned =>
        /\ {EntriesOut[k] : k \in 1..Len(EntriesOut)} = OfToday
        /\ Len(EntriesOut) = Cardinality(OfToday)
        /\ \A i, j \in 1..Len(EntriesOut) :
               i < j =>
                   /\ ClaimTagged(EntriesOut[j]) => ClaimTagged(EntriesOut[i])
                   /\ ClaimTagged(EntriesOut[i]) /\ ClaimTagged(EntriesOut[j])
                          => ClaimTagStart(EntriesOut[i]) <= ClaimTagStart(EntriesOut[j])
                   /\ ~ClaimTagged(EntriesOut[i]) /\ ~ClaimTagged(EntriesOut[j])
                          => EntriesOut[i]["id"] < EntriesOut[j]["id"]

\* The backend lists an untagged activity, then a later tagged one, then
\* an earlier tagged one with a greater id: the answer is rearranged.
C23_Witness ==
    /\ DailyEntriesReturned
    /\ Len(activities) = 3 /\ Len(EntriesOut) = 3
    /\ ~ClaimTagged(activities[1])
    /\ ClaimTagged(activities[2]) /\ ClaimTagged(activities[3])
    /\ ClaimTagStart(activities[3]) < ClaimTagStart(activities[2])
    /\ activities[2]["id"] < activities[3]["id"]
    /\ EntriesOut = <<activities[3], activities[2], activities[1]>>

LastActivityReturned == last_fetch.kind = "return"

\* The reads of the backend issued so far.
Reads == SelectSeq(calls, LAMBDA c : c.api = "moco_get")

\* C25: get_last_activity returns None if and only if the backend reports
\* no activities for the date; otherwise it returns the activity of the
\* date with the greatest id; it reads the backend exactly once.
C25_LastActivityGreatestId ==
    /\ last_fetch # NotCalled => Len(Reads) = 1 /\ Len(calls) = 1
    /\ LastActivityReturned =>
           /\ last_fetch.val = None <=> OfToday = {}
           /\ OfToday # {} =>
                  /\ last_fetch.val.some
                  /\ last_fetch.val.val \in OfToday
                  /\ \A a \in OfToday : a["id"] <= last_fetch.val.val["id"]

\* The greatest id is not the first the backend lists.
C25_Witness ==
    /\ LastActivityReturned
    /\ Len(activities) >= 2
    /\ activities[1]["date"] = 0
    /\ last_fetch.val.some
    /\ last_fetch.val.val # activities[1]
    /\ last_fetch.val.val["id"] > activities[1]["id"]

\* The last activity held is the record of the entry.
LastIsTheEntry ==
    /\ last_activity.some
    /\ "description" \in DOMAIN last_activity.val
    /\ last_activity.val["description"] = Description(entry_data)

\* C28: for every entry with a valid start_time and end_time and any ticket
\* id and comment, get_start_time_suggestion of an activity whose
\* description is the one save_entry builds for the entry returns the
\* entry's end_time, and the ledger's sort key of that activity is the
\* entry's start_time.
C28_TagRoundTrip ==
    suggestion.kind = "return" /\ LastIsTheEntry =>
        /\ suggestion.val = Some(entry_data["end_time"])
        /\ get_sort_key(last_activity.val) = <<0, entry_data["start_time"]>>

-----------------------------------------------------------------------------
(* The watcher *)

CHECK_INTERVAL == 900
REMINDER_THRESHOLD == 900

\* Whether r'\((\d{2}:\d{2})-(\d{2}:\d{2})\)' matches at position i of s.
ColonTagAt(s, i) ==
    /\ i + 12 <= Len(s)
    /\ s[i] = "(" /\ s[i + 3] = ":" /\ s[i + 6] = "-" /\ s[i + 9] = ":"
    /\ s[i + 12] = ")"
    /\ \A k \in {1, 2, 4, 5, 7, 8, 10, 11} : s[i + k] \in DecimalDigits

\* re.search of that pattern: the groups of the leftmost match, or None.
ColonTagSearch(s) ==
    LET at == {i \in 1..Len(s) : ColonTagAt(s, i)}
    IN  IF at = {} THEN None
        ELSE LET i == CHOOSE j \in at : \A k \in at : j <= k
             IN  Some(<<SubSeq(s, i + 1, i + 5), SubSeq(s, i + 7, i + 11)>>)

\* Lines 69-72: the second group of the match, or None.
WatcherTagEnd(description) ==
    LET match == ColonTagSearch(description)
    IN  IF match.some THEN Some(match.val[2]) ELSE None

\* Lines 49-77: None when the request fails or the answer is empty; else
\* the end of the tag of the activity with the greatest id, as a time of
\* today (its minute of the day); None without a tag.  strptime raises
\* ValueError for an hour above 23 or a minute above 59.
get_last_entry_end_time(ok, answer) ==
    IF ~ok \/ answer = <<>> THEN Return(None)
    ELSE LET newest == get_last_activity(answer).val
             end_time_str == WatcherTagEnd(GetStr(newest, "description", <<>>))
         IN  IF ~end_time_str.some THEN Return(None)
             ELSE IF 10 * DigitValue(end_time_str.val[1]) + DigitValue(end_time_str.val[2]) > 23
                     \/ DigitValue(end_time_str.val[4]) > 5
             THEN Raise("ValueError", "time data does not match format '%Y-%m-%d %H:%M'")
             ELSE Return(Some(Strptime(end_time_str.val)))

\* The bound of the watcher's rounds.
MaxChecks == 3

\* Lines 92-114, one round of the loop up to the sleep: the last end time
\* is read; an end in the future or no end sends nothing; an end more than
\* REMINDER_THRESHOLD seconds ago sends the reminder.  An exception ends
\* the loop with an error notification (lines 122-124).
Check ==
    /\ pc = "watch"
    /\ \E ok \in BOOLEAN :
           LET r == get_last_entry_end_time(ok, ActivitiesBetween(activities, Today, Today))
           IN  /\ last_entry_time' = r
               /\ IF r.kind = "raise"
                  THEN /\ pc' = "watcher stopped"
                       /\ notifications' = Append(notifications, [at |-> now, title |-> "Synk Watcher Error"])
                  ELSE /\ pc' = "sleep"
                       /\ IF r.val.some /\ r.val.val <= now
                             /\ 60 * (now - r.val.val) > REMINDER_THRESHOLD
                          THEN notifications' = Append(notifications, [at |-> now, title |-> "Time to Synk?"])
                          ELSE notifications' = notifications
           /\ calls' = Append(calls, Call("requests.get", "activities", ok))
    /\ checks' = checks + 1
    /\ UNCHANGED <<now, activities, entry_data, saved, ledgerVars, sessionVars, parseVars,
                   calcVars, lookupVars>>

\* Line 117: time.sleep(CHECK_INTERVAL).
Sleep ==
    /\ pc = "sleep"
    /\ checks < MaxChecks
    /\ now' = now + CHECK_INTERVAL \div 60
    /\ pc' = "watch"
    /\ UNCHANGED <<checks, last_entry_time, notifications, ledgerVars, sessionVars, parseVars,
                   calcVars, saveVars, lookupVars>>

-----------------------------------------------------------------------------
(* The watcher's specification: today's backend holds up to two activities,
   the newest of them possibly the record of an entry save_entry built; the
   watcher starts at some time of the day and makes its rounds. *)

ColonTagged(id, from, to) ==
    [ id |-> id, date |-> Today,
      description |-> <<"(">> \o from \o <<"-">> \o to \o <<")">> ]

WatchedLedgers(e) ==
    { <<>>,
      <<Recorded(e, 7)>>,
      <<Recorded(e, 7), Tagged(1, Today, FormatHHMM(9, 0), FormatHHMM(10, 0))>>,
      <<[id |-> 2, date |-> Today, description |-> <<"a", " ", "b">>]>>,
      <<ColonTagged(8, FormatHHMM(9, 0), FormatHHMM(10, 30)), Recorded(e, 7)>>,
      <<ColonTagged(9, FormatHHMM(9, 0), <<"2", "5", ":", "0", "0">>)>> }

WatcherStarts == { 10 * 60, 10 * 60 + 30, 10 * 60 + 40, 23 * 60 }

InitWatcher ==
    /\ entry_data \in LedgerDrafts
    /\ IdleParse
    /\ IdleCalc
    /\ IdleLookup
    /\ IdleLedger
    /\ IdleSession
    /\ pc = "watch"
    /\ activities \in WatchedLedgers(entry_data)
    /\ calls = <<>>
    /\ saved = NotCalled
    /\ now \in WatcherStarts
    /\ checks = 0
    /\ last_entry_time = NotCalled
    /\ notifications = <<>>

NextWatcher == Check \/ Sleep

SpecWatcher == InitWatcher /\ [][NextWatcher]_vars

\* The newest activity of today is the record of the entry.
NewestIsTheEntry ==
    /\ activities # <<>>
    /\ \A k \in 1..Len(activities) : activities[k]["id"] <= 7
    /\ \E k \in 1..Len(activities) : activities[k] = [id |-> 7, date |-> 0,
                                                      description |-> Description(entry_data)]

\* The entry's end time, as the minute of the day.
EntryEnd ==
    LET t == entry_data["end_time"]
        v(c) == CHOOSE n \in 0..9 : ToString(n) = c
    IN  60 * (10 * v(t[1]) + v(t[2])) + 10 * v(t[4]) + v(t[5])

Reminded(at) ==
    \E k \in 1..Len(notifications) :
        notifications[k].at = at /\ notifications[k].title = "Time to Synk?"

\* C30: when today's newest activity has a description built by save_entry,
\* a round of the watcher whose request succeeds finds today's date at the
\* entry's end time, not None; the reminder is sent once more than
\* REMINDER_THRESHOLD seconds have passed since that end, and never while
\* the end is still in the future.
C30_WatcherReadsTrackerTag ==
    pc = "sleep" /\ NewestIsTheEntry /\ calls[Len(calls)].ok =>
        /\ last_entry_time = Return(Some(EntryEnd))
        /\ 60 * (now - EntryEnd) > 900 => Reminded(now)
        /\ EntryEnd > now => ~Reminded(now)

-----------------------------------------------------------------------------
(* The interactive session: track_time.py's main and its prompts *)

\* What a prompt's loop does with an answer it rejects: it prints the
\* message and asks again.
Reprompt(m) == [kind |-> "reprompt", val |-> <<>>, exc |-> "", msg |-> m, bound |-> 0]

\* track_time.py's parse_and_validate_time_input: three or four decimal
\* digits, padded to four; "HH:MM" when the hour and minute are in range.
cli_parse_and_validate_time_input(s) ==
    IF ~(AllDecimalDigits(s) /\ 3 <= Len(s) /\ Len(s) <= 4) THEN None
    ELSE LET padded == IF Len(s) = 3 THEN <<"0">> \o s ELSE s
             hour == DecimalValue(SubSeq(padded, 1, 2))
             minute == DecimalValue(SubSeq(padded, 3, 4))
         IN  IF hour <= 23 /\ minute <= 59 THEN Some(FormatHHMM(hour, minute))
             ELSE None

\* Whether datetime.strptime(s, "%H:%M") accepts an "dd:dd" string.
StrptimeAccepts(s) ==
    /\ 10 * DigitValue(s[1]) + DigitValue(s[2]) <= 23
    /\ 10 * DigitValue(s[4]) + DigitValue(s[5]) <= 59

Last == <<"l", "a", "s", "t">>

\* Lines 290-304, one round of the start prompt: 'last' takes the default
\* offered when there is one; else the answer is parsed.
ask_for_time_start(offered, start_time_input) ==
    IF Lower(start_time_input) = Last /\ offered.some THEN Return(offered.val)
    ELSE LET parsed_time == cli_parse_and_validate_time_input(start_time_input)
         IN  IF parsed_time.some THEN Return(parsed_time.val)
             ELSE Reprompt("Invalid format. Use (h)hmm (e.g., 800 or 1730) or 'last'.")

\* Lines 309-331, one round of the end prompt.  strptime of the start is
\* outside the try; a time after the start is taken; else the answer is a
\* number of hours: float() failing or timedelta() refusing nan (both
\* ValueError) ask again, a number <= 0 asks again, and an infinite or huge
\* number raises OverflowError, which nothing catches.
ask_for_time_end(start, answer) ==
    LET parsed_end_time == cli_parse_and_validate_time_input(answer)
        f == PyFloat(answer)
    IN  IF ~StrptimeAccepts(start)
        THEN Raise("ValueError", "time data does not match format '%H:%M'")
        ELSE IF parsed_end_time.some
        THEN IF Strptime(parsed_end_time.val) <= Strptime(start)
             THEN Reprompt(EndNotAfterStart)
             ELSE Return([ end_time_str |-> parsed_end_time.val,
                           duration_hours |->
                               (Strptime(parsed_end_time.val) - Strptime(start))
                               * TicksPerMinute ])
        ELSE IF f.kind = "raise" THEN Reprompt(InvalidFormat)
        ELSE IF f.val.cls \in {"-inf", "-huge"} \/ (f.val.cls = "finite" /\ f.val.ticks <= 0)
        THEN Reprompt("Duration must be positive.")
        ELSE IF f.val.cls = "nan" THEN Reprompt(InvalidFormat)
        ELSE IF f.val.cls = "inf"
        THEN Raise("OverflowError", "cannot convert float infinity to integer")
        ELSE IF f.val.cls = "huge"
        THEN Raise("OverflowError", "date value out of range")
        ELSE Return([ end_time_str |-> StrftimeAfter(Strptime(start), f.val.ticks),
                      duration_hours |-> f.val.ticks ])

\* What ask_for_jira returns for a ticket of an instance.
JiraAnswer(name, key) ==
    [ jira_issue |-> Some([client |-> name, key |-> key]),
      jira_id |-> Some(key),
      jira_client |-> Some(name) ]

\* return None, None, None
NoJiraAnswer == [jira_issue |-> None, jira_id |-> None, jira_client |-> None]

QuestionMark == <<"?">>

\* Lines 204-273, one round of the ticket prompt for an answer other than
\* '?': empty skips; an unknown prefix or a ticket not found asks again;
\* a ticket found is confirmed by the user, then read with
\* jira_client.issue, whose JIRAError nothing catches.
ask_for_jira(cfg, servers, answer, confirmed, issue_ok) ==
    IF answer = <<>> THEN Return(NoJiraAnswer)
    ELSE LET instances == cfg["jira_instances"]
             t == TargetInstance(instances, TicketPrefix(answer))
             name == instances[t].name
             search_results == search_jira_issues(KeyQuery(answer), servers[name],
                                                  MaxResultsVerify).val
         IN  IF t = 0 THEN Reprompt("No JIRA instance configured for project key")
             ELSE IF search_results = <<>> THEN Reprompt("JIRA ticket not found")
             ELSE IF ~confirmed THEN Reprompt("Please enter the ticket ID again.")
             ELSE IF ~issue_ok THEN Raise("JIRAError", "{e}")
             ELSE Return(JiraAnswer(name, search_results[1].key))

\* Lines 210-244, the list '?' asks for and one round of its number
\* prompt: an answer that is no number asks again, 0 goes back, a number
\* of the list takes that ticket, any other number asks again.
RecentList(cfg, servers) == search_recent_jira_issues(cfg, servers).result.val

ask_for_ticket_number(cfg, servers, is_number, choice, issue_ok) ==
    LET all_recent_issues == RecentList(cfg, servers)
    IN  IF ~is_number THEN Reprompt("Please enter a number.")
        ELSE IF choice = 0 THEN Return(None)
        ELSE IF ~(1 <= choice /\ choice <= Len(all_recent_issues))
        THEN Reprompt("Choice out of range.")
        ELSE IF ~issue_ok THEN Raise("JIRAError", "{e}")
        ELSE Return(Some(JiraAnswer(all_recent_issues[choice].instance_name,
                                    all_recent_issues[choice].key)))

\* tasks_display of ask_for_task: each task with its display name.
TasksDisplay(selected_project) ==
    [ i \in 1..Len(TasksOf(selected_project)) |->
        [display_name |-> Strip(BeforeBar(TaskName(TasksOf(selected_project)[i])))]
        @@ TasksOf(selected_project)[i] ]

\* The time part and the description main builds (lines 451-455), the same
\* expressions as save_entry's.
SessionDescription(e) == Description(e)

\* Lines 468-474: moco_payload.
SessionPayload(e) ==
    [ date |-> WorkDate,
      project_id |-> e["selected_project"]["id"],
      task_id |-> e["selected_task"]["id"],
      hours |-> RoundHours4(e["duration_hours"]),
      description |-> SessionDescription(e) ]

\* The activity the backend holds after a create: it gives the new
\* activity an id above all it holds.
NextId(held) ==
    1 + (IF held = <<>> THEN 0
         ELSE CHOOSE m \in {held[k]["id"] : k \in 1..Len(held)} :
                  \A k \in 1..Len(held) : held[k]["id"] <= m)
Created(held, payload) ==
    [ id |-> NextId(held), date |-> Today, description |-> payload.description,
      project |-> [id |-> payload.project_id] ]

\* The bound of the session's entry cycles.
MaxCycles == 2

\* The variables the session never writes.
sessionFixed ==
    <<config, assigned_projects, jira_servers, parsed, project, calc, searches,
      verified, recent, taskVars, project_choices, ledgerVars, watcherVars>>

QuestionOrder == config["question_order"]
AtStep(name) ==
    /\ pc = "step"
    /\ question_step <= Len(QuestionOrder)
    /\ QuestionOrder[question_step] = name

\* What the user may type at the prompts.
SessionTicketAnswers ==
    { <<>>, QuestionMark, <<"A", "-", "1">>, <<"A", "-", "9">>, <<"C", "-", "1">> }
SessionComments == { <<>>, SpanComment }
SessionStartAnswers == { Last, <<"9", "0", "0">>, <<"2", "5", "0", "0">> }
SessionEndAnswers ==
    { <<"1", "0", "3", "0">>, <<"0", ".", "7", "5">>, <<"8", "0", "0">>,
      <<"i", "n", "f">>, <<"n", "a", "n">>, <<"-", "1">>, <<"x">> }

\* Where the program goes next, what it prints and whether it dies.
Goto(position) == pc' = position /\ console' = console /\ crash' = crash
Say(position, message) == pc' = position /\ console' = message /\ crash' = crash

\* sys.exit(1) of moco_get and moco_post.
Exit(message) == Say("exited", message)

\* An exception nothing catches ends the program.
Crash(exception) == pc' = "crashed" /\ crash' = exception /\ console' = console

\* The next step of the question order.
NextStep == Goto("step") /\ question_step' = question_step + 1

\* Lines 416-418: the day's entries are displayed and the last activity is
\* read; a failed read ends the program.
StartSession ==
    /\ pc = "start"
    /\ \E ok \in BOOLEAN :
           /\ calls' = Append(calls, Call("moco_get", "activities", ok))
           /\ IF ok
              THEN /\ last_activity' =
                          get_last_activity(ActivitiesBetween(activities, Today, Today))
                   /\ Goto("fetch projects")
              ELSE Exit("Moco API Error") /\ last_activity' = last_activity
    /\ UNCHANGED <<sessionFixed, entry_data, activities, saved, start_time_str,
                   end_input, time_str, jira_id_input, question_step, cycle,
                   last_end_time>>

\* Lines 420-432: a cycle starts with an empty draft and the assigned
\* projects; without an eligible project the session ends.
FetchProjects ==
    /\ pc = "fetch projects"
    /\ entry_data' = EmptyDict
    /\ start_time_str' = <<>> /\ end_input' = <<>> /\ time_str' = <<>>
    /\ jira_id_input' = <<>>
    /\ \E ok \in BOOLEAN :
           /\ calls' = <<Call("moco_get", "projects/assigned", ok)>>
           /\ IF ~ok THEN Exit("Moco API Error") /\ UNCHANGED question_step
              ELSE IF EligibleProjects(assigned_projects) = <<>>
              THEN /\ Say("finished", "No assigned projects with active tasks were found.")
                   /\ UNCHANGED question_step
              ELSE Goto("step") /\ question_step' = 1
    /\ UNCHANGED <<sessionFixed, activities, saved, last_activity, cycle,
                   last_end_time>>

\* Line 436: the user picks one of the projects listed.
AskProject ==
    /\ AtStep("project")
    /\ \E p \in 1..Len(EligibleProjects(assigned_projects)) :
           entry_data' = [selected_project |-> EligibleProjects(assigned_projects)[p]]
                         @@ entry_data
    /\ NextStep
    /\ UNCHANGED <<sessionFixed, calls, activities, saved, last_activity,
                   start_time_str, end_input, time_str, jira_id_input, cycle,
                   last_end_time>>

\* Lines 437-439: without a project the loop over the steps is left; else
\* the user picks one of the project's tasks.
AskTask ==
    /\ AtStep("task")
    /\ IF "selected_project" \notin DOMAIN entry_data
       THEN /\ Say("summary", "Error: Project must be selected before task.")
            /\ UNCHANGED <<entry_data, question_step>>
       ELSE /\ \E t \in 1..Len(TasksDisplay(entry_data["selected_project"])) :
                   entry_data' =
                       [selected_task |-> TasksDisplay(entry_data["selected_project"])[t]]
                       @@ entry_data
            /\ NextStep
    /\ UNCHANGED <<sessionFixed, calls, activities, saved, last_activity,
                   start_time_str, end_input, time_str, jira_id_input, cycle,
                   last_end_time>>

\* Lines 440-444: with instances configured the ticket is asked for, else
\* the three keys are None.
JiraStep ==
    /\ AtStep("jira")
    /\ IF config["jira_instances"] # <<>>
       THEN Goto("ask jira") /\ UNCHANGED <<entry_data, question_step>>
       ELSE entry_data' = NoJiraAnswer @@ entry_data /\ NextStep
    /\ UNCHANGED <<sessionFixed, calls, activities, saved, last_activity,
                   start_time_str, end_input, time_str, jira_id_input, cycle,
                   last_end_time>>

\* Lines 204-273, one round of the ticket prompt.
AskJira ==
    /\ pc = "ask jira"
    /\ \E answer \in SessionTicketAnswers, confirmed \in BOOLEAN, issue_ok \in BOOLEAN :
           /\ jira_id_input' = answer
           /\ IF answer = QuestionMark
              THEN /\ IF RecentList(config, jira_servers) = <<>>
                      THEN Say("ask jira", "No recent or in-progress tickets found across all instances.")
                      ELSE Goto("ask ticket number")
                   /\ UNCHANGED <<entry_data, question_step>>
              ELSE LET r == ask_for_jira(config, jira_servers, answer, confirmed, issue_ok)
                   IN  IF r.kind = "reprompt"
                       THEN Say("ask jira", r.msg) /\ UNCHANGED <<entry_data, question_step>>
                       ELSE IF r.kind = "raise"
                       THEN Crash(r) /\ UNCHANGED <<entry_data, question_step>>
                       ELSE entry_data' = r.val @@ entry_data /\ NextStep
    /\ UNCHANGED <<sessionFixed, calls, activities, saved, last_activity,
                   start_time_str, end_input, time_str, cycle, last_end_time>>

\* Lines 228-242, one round of the number prompt under the list.
AskTicketNumber ==
    /\ pc = "ask ticket number"
    /\ \E is_number \in BOOLEAN, choice \in 0..(Len(RecentList(config, jira_servers)) + 1),
          issue_ok \in BOOLEAN :
           LET r == ask_for_ticket_number(config, jira_servers, is_number, choice, issue_ok)
           IN  IF r.kind = "reprompt"
               THEN Say("ask ticket number", r.msg) /\ UNCHANGED <<entry_data, question_step>>
               ELSE IF r.kind = "raise"
               THEN Crash(r) /\ UNCHANGED <<entry_data, question_step>>
               ELSE IF ~r.val.some
               THEN Goto("ask jira") /\ UNCHANGED <<entry_data, question_step>>
               ELSE entry_data' = r.val.val @@ entry_data /\ NextStep
    /\ UNCHANGED <<sessionFixed, calls, activities, saved, last_activity,
                   start_time_str, end_input, time_str, jira_id_input, cycle,
                   last_end_time>>

\* Line 446: any comment, an empty one too.
AskComment ==
    /\ AtStep("comment")
    /\ \E comment \in SessionComments : entry_data' = [comment |-> comment] @@ entry_data
    /\ NextStep
    /\ UNCHANGED <<sessionFixed, calls, activities, saved, last_activity,
                   start_time_str, end_input, time_str, jira_id_input, cycle,
                   last_end_time>>

\* Lines 279-289: ask_for_time first reads the default start off the last
\* activity it is handed.
TimeStep ==
    /\ AtStep("time")
    /\ last_end_time' = get_start_time_suggestion(last_activity)
    /\ Goto("ask start")
    /\ UNCHANGED <<sessionFixed, entry_data, calls, activities, saved, last_activity,
                   start_time_str, end_input, time_str, jira_id_input, cycle,
                   question_step>>

\* Lines 290-304, one round of the start prompt.
AskStart ==
    /\ pc = "ask start"
    /\ \E answer \in SessionStartAnswers :
           LET r == ask_for_time_start(last_end_time, answer)
           IN  /\ time_str' = answer
               /\ IF r.kind = "reprompt"
                  THEN Say("ask start", r.msg) /\ UNCHANGED start_time_str
                  ELSE Goto("ask end") /\ start_time_str' = r.val
    /\ UNCHANGED <<sessionFixed, entry_data, calls, activities, saved, last_activity,
                   end_input, jira_id_input, cycle, question_step, last_end_time>>

\* Lines 309-333 and 448-449: one round of the end prompt; the three answers
\* of ask_for_time go into the draft.
AskEnd ==
    /\ pc = "ask end"
    /\ \E answer \in SessionEndAnswers :
           LET r == ask_for_time_end(start_time_str, answer)
           IN  /\ end_input' = answer
               /\ IF r.kind = "reprompt"
                  THEN Say("ask end", r.msg) /\ UNCHANGED <<entry_data, question_step>>
                  ELSE IF r.kind = "raise"
                  THEN Crash(r) /\ UNCHANGED <<entry_data, question_step>>
                  ELSE /\ entry_data' =
                              [ start_time |-> start_time_str,
                                end_time |-> r.val.end_time_str,
                                duration_hours |-> r.val.duration_hours ] @@ entry_data
                       /\ NextStep
    /\ UNCHANGED <<sessionFixed, calls, activities, saved, last_activity,
                   start_time_str, time_str, jira_id_input, cycle, last_end_time>>

\* A step name main does not know is passed over.
OtherStep ==
    /\ pc = "step"
    /\ question_step <= Len(QuestionOrder)
    /\ QuestionOrder[question_step] \notin {"project", "task", "jira", "comment", "time"}
    /\ NextStep
    /\ UNCHANGED <<sessionFixed, entry_data, calls, activities, saved, last_activity,
                   start_time_str, end_input, time_str, jira_id_input, cycle,
                   last_end_time>>

\* Lines 451-464: after the steps, or after the loop was left, the summary
\* is printed; it subscripts the project and the task of the draft.
Summary ==
    /\ pc = "summary" \/ (pc = "step" /\ question_step > Len(QuestionOrder))
    /\ IF "selected_project" \notin DOMAIN entry_data
       THEN Crash(Raise("KeyError", "selected_project"))
       ELSE IF "selected_task" \notin DOMAIN entry_data
       THEN Crash(Raise("KeyError", "selected_task"))
       ELSE Goto("confirm")
    /\ UNCHANGED <<sessionFixed, entry_data, calls, activities, saved, last_activity,
                   start_time_str, end_input, time_str, jira_id_input, cycle,
                   question_step, last_end_time>>

\* Lines 466 and 489-490: the user confirms or cancels.
Confirm ==
    /\ pc = "confirm"
    /\ \E yes \in BOOLEAN :
           IF yes THEN Goto("save") /\ saved' = saved
           ELSE Say("refetch", "Canceled.") /\ saved' = NotCalled
    /\ UNCHANGED <<sessionFixed, entry_data, calls, activities, last_activity,
                   start_time_str, end_input, time_str, jira_id_input, cycle,
                   question_step, last_end_time>>

\* The create sent with the summary's defaults for a draft without a time
\* span.
SaveMoco_defaultHours ==
    /\ pc = "save"
    /\ LET payload ==
               IF "duration_hours" \in DOMAIN entry_data THEN SessionPayload(entry_data)
               ELSE [ date |-> WorkDate,
                      project_id |-> entry_data["selected_project"]["id"],
                      task_id |-> entry_data["selected_task"]["id"],
                      hours |-> 0,
                      description |-> SessionDescription(entry_data) ]
       IN  \E ok \in BOOLEAN :
               /\ calls' = Append(calls, Call("moco_post", payload, ok))
               /\ IF ok
                  THEN /\ activities' = Append(activities, Created(activities, payload))
                       /\ saved' = Return(entry_data)
                       /\ Say(IF GetOptional(entry_data, "jira_issue").some
                                  /\ "start_time" \in DOMAIN entry_data
                              THEN "worklog" ELSE "refetch",
                              "Entry saved to Moco.")
                  ELSE /\ Exit("Moco API Error creating entry")
                       /\ UNCHANGED <<activities, saved>>
    /\ UNCHANGED <<sessionFixed, entry_data, last_activity, start_time_str, end_input,
                   time_str, jira_id_input, cycle, question_step, last_end_time>>

\* Lines 467-476: the payload subscripts the project, the task and the
\* duration of the draft (KeyError when one is missing), then moco_post
\* sends the create; when it fails the program exits.
SaveMoco ==
    /\ pc = "save"
    /\ IF MissingPayloadKeys(entry_data) # <<>>
       THEN /\ Crash(Raise("KeyError", MissingPayloadKeys(entry_data)[1]))
            /\ UNCHANGED <<calls, activities, saved>>
       ELSE \E ok \in BOOLEAN :
                /\ calls' = Append(calls, Call("moco_post", SessionPayload(entry_data), ok))
                /\ IF ok
                   THEN /\ activities' = Append(activities,
                                                Created(activities, SessionPayload(entry_data)))
                        /\ saved' = Return(entry_data)
                        /\ Say(IF GetOptional(entry_data, "jira_issue").some
                               THEN "worklog" ELSE "refetch",
                               "Entry saved to Moco.")
                   ELSE /\ Exit("Moco API Error creating entry")
                        /\ UNCHANGED <<activities, saved>>
    /\ UNCHANGED <<sessionFixed, entry_data, last_activity, start_time_str, end_input,
                   time_str, jira_id_input, cycle, question_step, last_end_time>>

\* The worklog step with a JIRAError left to end the program.
SaveJira_raises ==
    /\ pc = "worklog"
    /\ \E ok \in BOOLEAN :
           /\ calls' = Append(calls, Call("add_worklog", WorklogPayload(entry_data), ok))
           /\ IF ok THEN Say("refetch", "Worklog added to JIRA.")
              ELSE Crash(Raise("JIRAError", "{e}"))
    /\ UNCHANGED <<sessionFixed, entry_data, activities, saved, last_activity,
                   start_time_str, end_input, time_str, jira_id_input, cycle,
                   question_step, last_end_time>>

\* Lines 478-488: with a linked issue the worklog is written; a JIRAError
\* is printed and the cycle goes on.
SaveJira ==
    /\ pc = "worklog"
    /\ \E ok \in BOOLEAN :
           /\ calls' = Append(calls, Call("add_worklog", WorklogPayload(entry_data), ok))
           /\ IF ok THEN Say("refetch", "Worklog added to JIRA.")
              ELSE Say("refetch", "Failed to add JIRA worklog: {e.text}")
    /\ UNCHANGED <<sessionFixed, entry_data, activities, saved, last_activity,
                   start_time_str, end_input, time_str, jira_id_input, cycle,
                   question_step, last_end_time>>

\* Line 492: after the cycle, saved or canceled, the last activity of the
\* day is read again; a failed read ends the program.
Refetch ==
    /\ pc = "refetch"
    /\ \E ok \in BOOLEAN :
           /\ calls' = Append(calls, Call("moco_get", "activities", ok))
           /\ IF ok
              THEN /\ last_activity' =
                          get_last_activity(ActivitiesBetween(activities, Today, Today))
                   /\ Goto("another")
              ELSE Exit("Moco API Error") /\ last_activity' = last_activity
    /\ UNCHANGED <<sessionFixed, entry_data, activities, saved, start_time_str,
                   end_input, time_str, jira_id_input, cycle, question_step,
                   last_end_time>>

\* Lines 494-498: another cycle, or the day's entries are displayed and
\* the session ends.
AddAnother ==
    /\ pc = "another"
    /\ \E yes \in BOOLEAN, ok \in BOOLEAN :
           IF yes
           THEN /\ cycle < MaxCycles
                /\ cycle' = cycle + 1
                /\ Goto("fetch projects")
                /\ calls' = calls
           ELSE /\ cycle' = cycle
                /\ calls' = Append(calls, Call("moco_get", "activities", ok))
                /\ IF ok THEN Say("finished", "Time tracking finished. Goodbye!")
                   ELSE Exit("Moco API Error")
    /\ UNCHANGED <<sessionFixed, entry_data, activities, saved, last_activity,
                   start_time_str, end_input, time_str, jira_id_input, question_step,
                   last_end_time>>

-----------------------------------------------------------------------------
(* The session's specification: any of the question orders, with or
   without an issue tracker, a backend with or without an eligible project
   and an earlier entry of the day; then the session, up to MaxCycles
   entry cycles. *)

QuestionOrders ==
    { <<"project", "task", "jira", "comment", "time">>,
      <<"time", "project", "task">>,
      <<"task", "project", "time">>,
      <<"project", "task", "comment">>,
      <<"project", "time">>,
      <<"comment", "time", "notes">> }

SessionInstances == { <<>>, <<[name |-> "work", keys |-> {<<"A">>}]>> }

SessionProject ==
    [ id |-> 1, name |-> <<"b">>, active |-> TRUE, customer |-> [name |-> <<"A">>],
      tasks |-> <<[id |-> 1, name |-> <<"a", "M">>, active |-> TRUE],
                  [id |-> 2, name |-> <<"b">>, active |-> FALSE]>> ]

InitSession ==
    /\ pc = "start"
    /\ config \in [question_order : QuestionOrders, jira_instances : SessionInstances]
    /\ jira_servers = [work |-> [issues |-> <<Issue("A", "1", TRUE)>>, up |-> TRUE]]
    /\ activities \in { <<>>, <<Tagged(1, Today, FormatHHMM(8, 0), FormatHHMM(9, 0))>> }
    /\ assigned_projects \in { <<>>, <<SessionProject>> }
    /\ last_activity = None
    /\ entry_data = <<>> /\ calls = <<>> /\ saved = NotCalled
    /\ start_time_str = <<>> /\ end_input = <<>> /\ project = None /\ calc = NotCalled
    /\ jira_id_input = <<>> /\ searches = <<>> /\ verified = NotCalled
    /\ recent = NotCalled
    /\ project_choices = NotCalled
    /\ IdleParse
    /\ IdleTasks
    /\ IdleLedger
    /\ IdleWatcher
    /\ question_step = 0
    /\ cycle = 1
    /\ last_end_time = None
    /\ crash = NotCalled
    /\ console = ""

NextSession ==
    \/ StartSession \/ FetchProjects
    \/ AskProject \/ AskTask \/ JiraStep \/ AskJira \/ AskTicketNumber
    \/ AskComment \/ TimeStep \/ AskStart \/ AskEnd \/ OtherStep
    \/ Summary \/ Confirm \/ SaveMoco \/ SaveJira \/ Refetch \/ AddAnother

SpecSession == InitSession /\ [][NextSession]_vars

-----------------------------------------------------------------------------
(* The session's claims *)

\* The creates sent in the current cycle.
Creates == SelectSeq(calls, LAMBDA c : c.api = "moco_post")

\* Whether a text holds the placeholder N/A.
ClaimPlaceholder(d) ==
    \E i \in 1..Len(d) :
        i + 2 <= Len(d) /\ d[i] = "N" /\ d[i + 1] = "/" /\ d[i + 2] = "A"

\* The newest activity the backend holds for today, or None.
ClaimNewest ==
    IF OfToday = {} THEN [some |-> FALSE, val |-> <<>>]
    ELSE [some |-> TRUE,
          val |-> CHOOSE a \in OfToday : \A b \in OfToday : b["id"] <= a["id"]]

\* Between the prompts of a cycle the last activity held is the backend's
\* newest: it was read after the latest create.
LastActivityFresh ==
    pc \in {"fetch projects", "step", "ask jira", "ask ticket number", "ask start",
            "ask end", "summary", "confirm", "save", "another"}
        => last_activity = ClaimNewest

\* C24: the last activity of the day is read again after every entry cycle
\* and before the next cycle's prompts, so the default start offered for
\* the next entry comes from a backend state that holds the entry before
\* it: when that entry was saved (it is then the newest activity), the
\* default offered is its end time.
C24_DefaultStartAfterSavedEntry ==
    /\ LastActivityFresh
    /\ pc \in {"ask start", "ask end"} /\ saved.kind = "return"
           => last_end_time = [some |-> TRUE, val |-> saved.val["end_time"]]

\* A worklog failure or a create failure happens in this step.
WorklogFails ==
    /\ Len(calls') = Len(calls) + 1
    /\ calls'[Len(calls')].api = "add_worklog"
    /\ ~calls'[Len(calls')].ok
CreateFails ==
    /\ Len(calls') = Len(calls) + 1
    /\ calls'[Len(calls')].api = "moco_post"
    /\ ~calls'[Len(calls')].ok

\* C26: a worklog failure after a saved entry is printed and the session
\* goes on to the read of the last activity, which (when the read itself
\* succeeds) leads to the "add another entry" prompt; a failure of the
\* create ends the session.
C26_PartialWriteGoesOn ==
    [][ /\ WorklogFails =>
               /\ Creates # <<>> /\ Creates[Len(Creates)].ok
               /\ pc' = "refetch"
               /\ console' = "Failed to add JIRA worklog: {e.text}"
        /\ pc = "refetch" =>
               \/ pc' = "another"
               \/ pc' = "exited" /\ calls'[Len(calls')].api = "moco_get"
                                 /\ ~calls'[Len(calls')].ok
        /\ CreateFails => pc' = "exited" /\ activities' = activities ]_vars

\* After a failed worklog the prompt for another entry is reached.
C26_Witness ==
    /\ pc = "another"
    /\ \E k \in 1..Len(calls) : calls[k].api = "add_worklog" /\ ~calls[k].ok
    /\ Creates # <<>> /\ Creates[1].ok
    /\ Len(activities) >= 1

\* The claim's own reading of the answers: a start or end time is three or
\* four digits naming an hour up to 23 and a minute up to 59.
ClaimMinute(s) ==
    LET v(c) == CHOOSE n \in 0..9 : ToString(n) = c
        p == IF Len(s) = 3 THEN <<"0">> \o s ELSE s
    IN  IF Len(s) \in {3, 4} /\ \A i \in 1..Len(s) : s[i] \in ClaimDigits
        THEN IF 10 * v(p[1]) + v(p[2]) <= 23 /\ 10 * v(p[3]) + v(p[4]) <= 59
             THEN 60 * (10 * v(p[1]) + v(p[2])) + 10 * v(p[3]) + v(p[4])
             ELSE 0 - 1
        ELSE 0 - 1
ClaimClock(t) ==
    LET v(c) == CHOOSE n \in 0..9 : ToString(n) = c
    IN  60 * (10 * v(t[1]) + v(t[2])) + 10 * v(t[4]) + v(t[5])

Prompts == {"ask start", "ask end", "ask jira", "ask ticket number"}

\* What a step taken at a prompt has to satisfy.
RepromptStep ==
    pc \in Prompts =>
        /\ pc' = "crashed" => crash'.exc = "JIRAError"
        /\ pc' = pc => entry_data' = entry_data
        /\ pc = "ask end" /\ pc' = "step" =>
               /\ ClaimClock(entry_data'["start_time"]) \in 0..(24 * 60 - 1)
               /\ entry_data'["duration_hours"] > 0
               /\ ClaimMinute(end_input') >= 0 =>
                      ClaimMinute(end_input') > ClaimClock(entry_data'["start_time"])
        /\ pc \in {"ask jira", "ask ticket number"} /\ pc' = "step" =>
               \/ jira_id_input' = <<>> /\ ~entry_data'["jira_id"].some
               \/ /\ entry_data'["jira_id"].some
                  /\ \E k \in 1..Len(jira_servers["work"].issues) :
                         jira_servers["work"].issues[k].key = entry_data'["jira_id"].val

\* C27: an invalid answer to the time, duration or ticket prompts never
\* ends the session and is answered by asking again; ask_for_time returns
\* only with a valid start and a duration above 0 (an end given as a time
\* is after the start), ask_for_jira only with a ticket found on the
\* tracker or with the skip; an answer rejected leaves the draft as it was.
C27_InvalidInputReprompts ==
    [][RepromptStep]_vars

\* The keys of a complete draft.
CompleteKeys == {"selected_project", "selected_task", "start_time", "end_time",
                 "duration_hours"}

\* C29: whatever the question order, no create is sent for a draft without
\* a selected project, a selected task or a time span, and no description
\* sent holds the placeholder tag.
C29_NoCreateForIncompleteDraft ==
    \A k \in 1..Len(Creates) :
        /\ CompleteKeys \subseteq DOMAIN entry_data
        /\ Creates[k].payload.project_id = entry_data["selected_project"]["id"]
        /\ Creates[k].payload.task_id = entry_data["selected_task"]["id"]
        /\ Creates[k].payload.hours > 0
        /\ ~ClaimPlaceholder(Creates[k].payload.description)
        /\ ClaimTagIn(Creates[k].payload.description,
                      Len(Creates[k].payload.description) - 10)

\* The order without the time step: the user confirmed the save, the
\* session ended on the missing duration and nothing was sent.
C29_Witness ==
    /\ config["question_order"] = <<"project", "task", "comment">>
    /\ pc = "crashed"
    /\ crash.exc = "KeyError" /\ crash.msg = "duration_hours"
    /\ {"selected_project", "selected_task"} \subseteq DOMAIN entry_data
    /\ Creates = <<>>

====
